---- MODULE Spec2Model ----
(***************************************************************************)
(* Model of guanabana's grammar builder (internal/grammar): the Builder    *)
(* that interns symbols, records precedence groups, rules and directives,  *)
(* the BuilderSink that adapts parser events to it, and Finalize, the      *)
(* semantic validation.                                                    *)
(*                                                                         *)
(* Go pointers to Symbol are modelled as 1-based positions in Symbols      *)
(* (NilSym is the nil pointer); a *RuleBuilder is the 1-based position of  *)
(* its rule in Rules (NilRule is the nil pointer).  Strings on which the   *)
(* code computes (names, type tags, directive keys and values) are         *)
(* sequences of one-character strings, so that strings.TrimSpace,          *)
(* strings.Fields and the unicode tests are computed and not assumed.      *)
(* Action blocks and RHS labels are opaque to the builder and are left out.*)
(*                                                                         *)
(* The last part models the scanner (internal/scanner) and the lexer       *)
(* (internal/lex): Tokenize as a function of the file name and the source. *)
(***************************************************************************)
EXTENDS Integers, Sequences, FiniteSets, TLC

VARIABLES
    Symbols,            \* Grammar.Symbols: the intern table, in interning order
    SymbolsByName,      \* Grammar.SymbolsByName: name -> pointer
    Rules,              \* Grammar.Rules, in source order
    Start,              \* Grammar.Start (pointer or NilSym)
    Directives,         \* Grammar.Directives: key -> value
    precedenceCounter,  \* Builder.precedenceCounter
    diags,              \* Builder.diags
    rbDone,             \* RuleBuilder.done of the RuleBuilder of each rule
    curRule,            \* BuilderSink.curRule (RuleBuilder pointer or NilRule)
    curLHS,             \* BuilderSink.curLHS (pointer or NilSym)
    declTokens,         \* BuilderSink.declTokens (set of names)
    declTypes,          \* BuilderSink.declTypes: name -> type tag
    UseHeuristicCapsAsTerminal, \* BuilderSink.UseHeuristicCapsAsTerminal
    ret,                \* the value returned by the last call
    last,               \* the last call: its name and arguments
    hist                \* history kept for the properties (see HistInit)

vars == <<Symbols, SymbolsByName, Rules, Start, Directives, precedenceCounter,
          diags, rbDone, curRule, curLHS, declTokens, declTypes,
          UseHeuristicCapsAsTerminal, ret, last, hist>>

----------------------------------------------------------------------------
(* Program constants *)

SymTerminal == 1
SymNonterminal == 2

AssocNone == 0
AssocLeft == 1
AssocRight == 2
AssocNonassoc == 3

DiagError == 1
DiagWarn == 2

DirUnknown == 0
DirStartSymbol == 1
DirTokenType == 2
DirType == 3
DirToken == 4
DirLeft == 5
DirRight == 6
DirNonassoc == 7
DirInclude == 8
DirCode == 9
DirFallback == 10

NilSym == 0
NilRule == 0
NilSpan == "nil"

\* The dummy symbol's name, "<invalid>".
InvalidName == <<"<", "i", "n", "v", "a", "l", "i", "d", ">">>

----------------------------------------------------------------------------
(* Strings *)

\* unicode.IsSpace over the characters the model uses.
\* "U+000B", "U+0085" and "U+00A0" are the runes of these code points.
IsSpace(c) == c \in {" ", "\t", "\n", "\r", "\f", "U+000B", "U+0085", "U+00A0"}

RECURSIVE TrimLeft(_)
TrimLeft(s) ==
    IF s # <<>> /\ IsSpace(Head(s)) THEN TrimLeft(Tail(s)) ELSE s

RECURSIVE TrimRight(_)
TrimRight(s) ==
    IF s # <<>> /\ IsSpace(s[Len(s)]) THEN TrimRight(SubSeq(s, 1, Len(s) - 1)) ELSE s

\* strings.TrimSpace
TrimSpace(s) == TrimRight(TrimLeft(s))

\* strings.Fields: the maximal runs of non-space characters, in order.
RECURSIVE FieldsFrom(_, _, _)
FieldsFrom(s, cur, acc) ==
    IF s = <<>> THEN (IF cur = <<>> THEN acc ELSE Append(acc, cur))
    ELSE IF IsSpace(Head(s))
         THEN FieldsFrom(Tail(s), <<>>, IF cur = <<>> THEN acc ELSE Append(acc, cur))
         ELSE FieldsFrom(Tail(s), Append(cur, Head(s)), acc)

Fields(s) == FieldsFrom(s, <<>>, <<>>)

\* unicode.IsLetter and unicode.ToUpper over the characters the model uses.
LowerLetters ==
    {"a", "b", "c", "d", "e", "f", "g", "h", "i", "j", "k", "l", "m",
     "n", "o", "p", "q", "r", "s", "t", "u", "v", "w", "x", "y", "z"}
UpperLetters ==
    {"A", "B", "C", "D", "E", "F", "G", "H", "I", "J", "K", "L", "M",
     "N", "O", "P", "Q", "R", "S", "T", "U", "V", "W", "X", "Y", "Z"}
\* "U+65E5" is the rune of that code point, a letter without case.
IsLetter(c) == c \in LowerLetters \cup UpperLetters \cup {"U+65E5"}
ToUpper(c) ==
    LET lower == <<"a", "b", "c", "d", "e", "f", "g", "h", "i", "j", "k", "l", "m",
                   "n", "o", "p", "q", "r", "s", "t", "u", "v", "w", "x", "y", "z">>
        upper == <<"A", "B", "C", "D", "E", "F", "G", "H", "I", "J", "K", "L", "M",
                   "N", "O", "P", "Q", "R", "S", "T", "U", "V", "W", "X", "Y", "Z">>
    IN  IF c \in LowerLetters
        THEN upper[CHOOSE i \in 1..26 : lower[i] = c]
        ELSE c

\* A Go map: a function on the set of its keys.
EmptyMap == [k \in {} |-> 0]
MapPut(m, k, v) == [x \in (DOMAIN m) \cup {k} |-> IF x = k THEN v ELSE m[x]]
HasKey(m, k) == k \in DOMAIN m

----------------------------------------------------------------------------
(* The builder, its grammar and the sink as one record, so that the        *)
(* methods are operators from record to record.                            *)

World ==
    [Symbols |-> Symbols, SymbolsByName |-> SymbolsByName, Rules |-> Rules,
     Start |-> Start, Directives |-> Directives,
     precedenceCounter |-> precedenceCounter, diags |-> diags,
     rbDone |-> rbDone, curRule |-> curRule, curLHS |-> curLHS,
     declTokens |-> declTokens, declTypes |-> declTypes,
     UseHeuristicCapsAsTerminal |-> UseHeuristicCapsAsTerminal, ret |-> ret]

\* NewBuilder followed by NewBuilderSink.
NewBuilder ==
    [Symbols |-> <<>>, SymbolsByName |-> EmptyMap, Rules |-> <<>>,
     Start |-> NilSym, Directives |-> EmptyMap,
     precedenceCounter |-> 0, diags |-> <<>>,
     rbDone |-> <<>>, curRule |-> NilRule, curLHS |-> NilSym,
     declTokens |-> {}, declTypes |-> EmptyMap,
     UseHeuristicCapsAsTerminal |-> TRUE, ret |-> NilSym]

\* HasErrors with a fault: only the most recent diagnostic is looked at.
HasErrorsLastOnly(w) ==
    Len(w.diags) > 0 /\ w.diags[Len(w.diags)].Level = DiagError

\* Builder.HasErrors
HasErrors(w) == \E i \in 1..Len(w.diags) : w.diags[i].Level = DiagError

\* Builder.Lookup: the pointer, or NilSym when the name is not in the table.
Lookup(w, name) ==
    LET n == TrimSpace(name)
    IN IF HasKey(w.SymbolsByName, n) THEN w.SymbolsByName[n] ELSE NilSym

\* Builder.error and Builder.warn; msg is the format string and its arguments.
error(w, at, msg) ==
    [w EXCEPT !.diags = Append(@, [Level |-> DiagError, Msg |-> msg, At |-> at])]

warn(w, at, msg) ==
    [w EXCEPT !.diags = Append(@, [Level |-> DiagWarn, Msg |-> msg, At |-> at])]

kindString(k) ==
    CASE k = SymTerminal -> "terminal"
      [] k = SymNonterminal -> "nonterminal"
      [] OTHER -> "unknown"

----------------------------------------------------------------------------
(* Symbol interning & metadata *)

RECURSIVE Intern(_, _, _, _)

\* internDummy with a fault: every call makes a new dummy symbol.
internDummyFresh(w, at) ==
    LET sym == [ID |-> Len(w.Symbols), Name |-> InvalidName, Kind |-> SymNonterminal,
                TypeTag |-> <<>>, Precedence |-> 0, Assoc |-> AssocNone,
                DeclaredAt |-> at]
        ptr == Len(w.Symbols) + 1
    IN [w EXCEPT !.Symbols = Append(@, sym),
                 !.SymbolsByName = MapPut(@, InvalidName, ptr),
                 !.ret = ptr]

\* Builder.internDummy: one stable dummy per builder.
internDummy(w, at) ==
    IF HasKey(w.SymbolsByName, InvalidName)
    THEN [w EXCEPT !.ret = w.SymbolsByName[InvalidName]]
    ELSE Intern(w, InvalidName, SymNonterminal, at)

\* Intern with a fault: a kind conflict is reported and the stored kind is
\* overwritten with the requested one.
InternRedeclares(w, rawName, kind, at) ==
    LET name == TrimSpace(rawName) IN
    IF name = <<>>
    THEN internDummy(error(w, at, <<"symbol name is empty">>), at)
    ELSE IF HasKey(w.SymbolsByName, name)
    THEN LET sym == w.SymbolsByName[name] IN
         IF w.Symbols[sym].Kind # kind
         THEN [error(w, at, <<"symbol %q previously declared as %s, cannot redeclare as %s",
                              name, kindString(w.Symbols[sym].Kind), kindString(kind)>>)
                 EXCEPT !.ret = sym, !.Symbols[sym].Kind = kind]
         ELSE [w EXCEPT !.ret = sym]
    ELSE LET sym == [ID |-> Len(w.Symbols), Name |-> name, Kind |-> kind,
                     TypeTag |-> <<>>, Precedence |-> 0, Assoc |-> AssocNone,
                     DeclaredAt |-> at]
             ptr == Len(w.Symbols) + 1
         IN [w EXCEPT !.Symbols = Append(@, sym),
                      !.SymbolsByName = MapPut(@, name, ptr),
                      !.ret = ptr]

\* Intern with a fault: the table is looked up under the untrimmed name.
InternRawLookup(w, rawName, kind, at) ==
    LET name == TrimSpace(rawName) IN
    IF name = <<>>
    THEN internDummy(error(w, at, <<"symbol name is empty">>), at)
    ELSE IF HasKey(w.SymbolsByName, rawName)
    THEN LET sym == w.SymbolsByName[rawName] IN
         IF w.Symbols[sym].Kind # kind
         THEN [error(w, at, <<"symbol %q previously declared as %s, cannot redeclare as %s",
                              name, kindString(w.Symbols[sym].Kind), kindString(kind)>>)
                 EXCEPT !.ret = sym]
         ELSE [w EXCEPT !.ret = sym]
    ELSE LET sym == [ID |-> Len(w.Symbols), Name |-> name, Kind |-> kind,
                     TypeTag |-> <<>>, Precedence |-> 0, Assoc |-> AssocNone,
                     DeclaredAt |-> at]
             ptr == Len(w.Symbols) + 1
         IN [w EXCEPT !.Symbols = Append(@, sym),
                      !.SymbolsByName = MapPut(@, name, ptr),
                      !.ret = ptr]

\* Builder.Intern: the resulting world; its ret is the returned pointer.
Intern(w, rawName, kind, at) ==
    LET name == TrimSpace(rawName) IN
    IF name = <<>>
    THEN internDummy(error(w, at, <<"symbol name is empty">>), at)
    ELSE IF HasKey(w.SymbolsByName, name)
    THEN LET sym == w.SymbolsByName[name] IN
         IF w.Symbols[sym].Kind # kind
         THEN [error(w, at, <<"symbol %q previously declared as %s, cannot redeclare as %s",
                              name, kindString(w.Symbols[sym].Kind), kindString(kind)>>)
                 EXCEPT !.ret = sym]
         ELSE [w EXCEPT !.ret = sym]
    ELSE LET sym == [ID |-> Len(w.Symbols), Name |-> name, Kind |-> kind,
                     TypeTag |-> <<>>, Precedence |-> 0, Assoc |-> AssocNone,
                     DeclaredAt |-> at]
             ptr == Len(w.Symbols) + 1
         IN [w EXCEPT !.Symbols = Append(@, sym),
                      !.SymbolsByName = MapPut(@, name, ptr),
                      !.ret = ptr]

EnsureTerminal(w, name, at) == Intern(w, name, SymTerminal, at)

EnsureNonterminal(w, name, at) == Intern(w, name, SymNonterminal, at)

\* SetTypeTag with a fault: a conflicting tag is reported and then stored.
SetTypeTagLastWins(w, sym, rawTag, at) ==
    LET typeTag == TrimSpace(rawTag) IN
    IF sym = NilSym THEN w
    ELSE IF typeTag = <<>> THEN w
    ELSE IF w.Symbols[sym].TypeTag # <<>> /\ w.Symbols[sym].TypeTag # typeTag
    THEN [error(w, at, <<"symbol %q already has type %q; cannot set to %q",
                         w.Symbols[sym].Name, w.Symbols[sym].TypeTag, typeTag>>)
            EXCEPT !.Symbols[sym].TypeTag = typeTag]
    ELSE [w EXCEPT !.Symbols[sym].TypeTag = typeTag]

\* Builder.SetTypeTag
SetTypeTag(w, sym, rawTag, at) ==
    LET typeTag == TrimSpace(rawTag) IN
    IF sym = NilSym THEN w
    ELSE IF typeTag = <<>> THEN w
    ELSE IF w.Symbols[sym].TypeTag # <<>> /\ w.Symbols[sym].TypeTag # typeTag
    THEN error(w, at, <<"symbol %q already has type %q; cannot set to %q",
                        w.Symbols[sym].Name, w.Symbols[sym].TypeTag, typeTag>>)
    ELSE [w EXCEPT !.Symbols[sym].TypeTag = typeTag]

\* SetStart with a fault: a start symbol that is already set is kept.
SetStartKeepsFirst(w, sym, at) ==
    IF sym = NilSym THEN w
    ELSE IF w.Symbols[sym].Kind # SymNonterminal
    THEN error(w, at, <<"start symbol %q must be a nonterminal", w.Symbols[sym].Name>>)
    ELSE IF w.Start # NilSym /\ w.Start # sym
    THEN warn(w, at, <<"start symbol changed from %q to %q",
                       w.Symbols[w.Start].Name, w.Symbols[sym].Name>>)
    ELSE [w EXCEPT !.Start = sym]

\* SetStart with a fault: a terminal is reported and then made the start.
SetStartAnyKind(w, sym, at) ==
    IF sym = NilSym THEN w
    ELSE IF w.Symbols[sym].Kind # SymNonterminal
    THEN [error(w, at, <<"start symbol %q must be a nonterminal", w.Symbols[sym].Name>>)
            EXCEPT !.Start = sym]
    ELSE LET w1 == IF w.Start # NilSym /\ w.Start # sym
                   THEN warn(w, at, <<"start symbol changed from %q to %q",
                                      w.Symbols[w.Start].Name, w.Symbols[sym].Name>>)
                   ELSE w
         IN [w1 EXCEPT !.Start = sym]

\* Builder.SetStart
SetStart(w, sym, at) ==
    IF sym = NilSym THEN w
    ELSE IF w.Symbols[sym].Kind # SymNonterminal
    THEN error(w, at, <<"start symbol %q must be a nonterminal", w.Symbols[sym].Name>>)
    ELSE LET w1 == IF w.Start # NilSym /\ w.Start # sym
                   THEN warn(w, at, <<"start symbol changed from %q to %q",
                                      w.Symbols[w.Start].Name, w.Symbols[sym].Name>>)
                   ELSE w
         IN [w1 EXCEPT !.Start = sym]

----------------------------------------------------------------------------
(* Precedence directives *)

RECURSIVE precedenceLoop(_, _, _, _, _, _)

\* precedenceLoop with a fault: an already assigned terminal is warned about
\* and then given the new level and associativity.
precedenceLoopLastWins(w, assoc, level, terminals, i, at) ==
    IF i > Len(terminals) THEN w
    ELSE LET t == terminals[i] IN
         IF t = NilSym
         THEN precedenceLoop(w, assoc, level, terminals, i + 1, at)
         ELSE IF w.Symbols[t].Kind # SymTerminal
         THEN precedenceLoop(
                  error(w, at, <<"precedence can only be assigned to terminals; %q is %s",
                                 w.Symbols[t].Name, kindString(w.Symbols[t].Kind)>>),
                  assoc, level, terminals, i + 1, at)
         ELSE IF w.Symbols[t].Precedence # 0
         THEN precedenceLoop(
                  [warn(w, at, <<"terminal %q already has precedence %d; ignoring new precedence %d",
                                 w.Symbols[t].Name, w.Symbols[t].Precedence, level>>)
                     EXCEPT !.Symbols[t].Precedence = level, !.Symbols[t].Assoc = assoc],
                  assoc, level, terminals, i + 1, at)
         ELSE precedenceLoop(
                  [w EXCEPT !.Symbols[t].Precedence = level, !.Symbols[t].Assoc = assoc],
                  assoc, level, terminals, i + 1, at)

\* precedenceLoop with a fault: a symbol that is no terminal is reported
\* and then given the level and associativity.
precedenceLoopAnyKind(w, assoc, level, terminals, i, at) ==
    IF i > Len(terminals) THEN w
    ELSE LET t == terminals[i] IN
         IF t = NilSym
         THEN precedenceLoop(w, assoc, level, terminals, i + 1, at)
         ELSE IF w.Symbols[t].Kind # SymTerminal
         THEN precedenceLoop(
                  [error(w, at, <<"precedence can only be assigned to terminals; %q is %s",
                                  w.Symbols[t].Name, kindString(w.Symbols[t].Kind)>>)
                     EXCEPT !.Symbols[t].Precedence = level, !.Symbols[t].Assoc = assoc],
                  assoc, level, terminals, i + 1, at)
         ELSE IF w.Symbols[t].Precedence # 0
         THEN precedenceLoop(
                  warn(w, at, <<"terminal %q already has precedence %d; ignoring new precedence %d",
                                w.Symbols[t].Name, w.Symbols[t].Precedence, level>>),
                  assoc, level, terminals, i + 1, at)
         ELSE precedenceLoop(
                  [w EXCEPT !.Symbols[t].Precedence = level, !.Symbols[t].Assoc = assoc],
                  assoc, level, terminals, i + 1, at)

\* The loop of Builder.DefinePrecedenceGroup over terminals[i..].
precedenceLoop(w, assoc, level, terminals, i, at) ==
    IF i > Len(terminals) THEN w
    ELSE LET t == terminals[i] IN
         IF t = NilSym
         THEN precedenceLoop(w, assoc, level, terminals, i + 1, at)
         ELSE IF w.Symbols[t].Kind # SymTerminal
         THEN precedenceLoop(
                  error(w, at, <<"precedence can only be assigned to terminals; %q is %s",
                                 w.Symbols[t].Name, kindString(w.Symbols[t].Kind)>>),
                  assoc, level, terminals, i + 1, at)
         ELSE IF w.Symbols[t].Precedence # 0
         THEN precedenceLoop(
                  warn(w, at, <<"terminal %q already has precedence %d; ignoring new precedence %d",
                                w.Symbols[t].Name, w.Symbols[t].Precedence, level>>),
                  assoc, level, terminals, i + 1, at)
         ELSE precedenceLoop(
                  [w EXCEPT !.Symbols[t].Precedence = level, !.Symbols[t].Assoc = assoc],
                  assoc, level, terminals, i + 1, at)

\* DefinePrecedenceGroup with a fault: the counter is advanced before the
\* associativity is checked.
DefinePrecedenceGroupCountsNone(w, assoc, terminals, at) ==
    LET w1 == [w EXCEPT !.precedenceCounter = @ + 1] IN
    IF assoc = AssocNone
    THEN error(w1, at, <<"precedence group must have associativity (left/right/nonassoc)">>)
    ELSE precedenceLoop(w1, assoc, w1.precedenceCounter, terminals, 1, at)

\* Builder.DefinePrecedenceGroup
DefinePrecedenceGroup(w, assoc, terminals, at) ==
    IF assoc = AssocNone
    THEN error(w, at, <<"precedence group must have associativity (left/right/nonassoc)">>)
    ELSE LET w1 == [w EXCEPT !.precedenceCounter = @ + 1]
         IN precedenceLoop(w1, assoc, w1.precedenceCounter, terminals, 1, at)

----------------------------------------------------------------------------
(* Rules & productions *)

\* BeginRule with a fault: a rule whose LHS is a terminal is reported and
\* not recorded.
BeginRuleSkipsTerminal(w, lhsArg, at) ==
    LET w0 == IF lhsArg = NilSym THEN internDummy(w, at) ELSE w
        lhs == IF lhsArg = NilSym THEN w0.ret ELSE lhsArg
        r == [LHS |-> lhs, Alternatives |-> <<>>, At |-> at]
    IN  IF w0.Symbols[lhs].Kind # SymNonterminal
        THEN [error(w0, at, <<"rule LHS %q must be a nonterminal", w0.Symbols[lhs].Name>>)
                EXCEPT !.ret = NilRule]
        ELSE LET w2 == [w0 EXCEPT !.Rules = Append(@, r), !.rbDone = Append(@, FALSE)]
                 w3 == IF w2.Start = NilSym THEN [w2 EXCEPT !.Start = lhs] ELSE w2
             IN [w3 EXCEPT !.ret = Len(w3.Rules)]

\* Builder.BeginRule: appends the rule; ret is the new RuleBuilder.
BeginRule(w, lhsArg, at) ==
    LET w0 == IF lhsArg = NilSym THEN internDummy(w, at) ELSE w
        lhs == IF lhsArg = NilSym THEN w0.ret ELSE lhsArg
        w1 == IF w0.Symbols[lhs].Kind # SymNonterminal
              THEN error(w0, at, <<"rule LHS %q must be a nonterminal", w0.Symbols[lhs].Name>>)
              ELSE w0
        r == [LHS |-> lhs, Alternatives |-> <<>>, At |-> at]
        w2 == [w1 EXCEPT !.Rules = Append(@, r), !.rbDone = Append(@, FALSE)]
        w3 == IF w2.Start = NilSym /\ w2.Symbols[lhs].Kind = SymNonterminal
              THEN [w2 EXCEPT !.Start = lhs]
              ELSE w2
    IN [w3 EXCEPT !.ret = Len(w3.Rules)]

\* The nil check of RuleBuilder.Alt over rhs[i..]; positions are 0-based.
RECURSIVE altNilLoop(_, _, _, _)
altNilLoop(w, rhs, i, at) ==
    IF i > Len(rhs) THEN w
    ELSE altNilLoop(IF rhs[i] = NilSym
                    THEN error(w, at, <<"rhs symbol at position %d is nil", i - 1>>)
                    ELSE w,
                    rhs, i + 1, at)

\* Alt with a fault: an override that is no terminal is reported and stored.
AltKeepsOverride(w, rb, rhs, precArg, at) ==
    IF rb = NilRule \/ w.rbDone[rb] THEN w
    ELSE LET w1 == altNilLoop(w, rhs, 1, at)
             bad == precArg # NilSym /\ w1.Symbols[precArg].Kind # SymTerminal
             w2 == IF bad
                   THEN error(w1, at, <<"precedence override symbol %q must be a terminal",
                                        w1.Symbols[precArg].Name>>)
                   ELSE w1
         IN [w2 EXCEPT !.Rules[rb].Alternatives =
                           Append(@, [RHS |-> rhs, PrecSym |-> precArg, At |-> at])]

\* RuleBuilder.Alt; rhs holds the Sym of each *SymbolRef (NilSym for a nil
\* ref or a ref with a nil Sym, which the code treats alike).
Alt(w, rb, rhs, precArg, at) ==
    IF rb = NilRule \/ w.rbDone[rb] THEN w
    ELSE LET w1 == altNilLoop(w, rhs, 1, at)
             bad == precArg # NilSym /\ w1.Symbols[precArg].Kind # SymTerminal
             w2 == IF bad
                   THEN error(w1, at, <<"precedence override symbol %q must be a terminal",
                                        w1.Symbols[precArg].Name>>)
                   ELSE w1
             prec == IF bad THEN NilSym ELSE precArg
         IN [w2 EXCEPT !.Rules[rb].Alternatives =
                           Append(@, [RHS |-> rhs, PrecSym |-> prec, At |-> at])]

\* RuleBuilder.End
End(w, rb) ==
    IF rb = NilRule THEN w ELSE [w EXCEPT !.rbDone[rb] = TRUE]

\* Builder.NewRef: ret is the Sym of the new reference.
NewRef(w, sym, at) ==
    IF sym = NilSym THEN internDummy(w, at) ELSE [w EXCEPT !.ret = sym]

----------------------------------------------------------------------------
(* Generic directives passthrough *)

\* SetDirective with a fault: an existing key keeps its first value.
SetDirectiveKeepsFirst(w, rawKey, value, at) ==
    LET key == TrimSpace(rawKey) IN
    IF key = <<>> THEN error(w, at, <<"directive key is empty">>)
    ELSE IF HasKey(w.Directives, key)
    THEN warn(w, at, <<"directive %q overwritten", key>>)
    ELSE [w EXCEPT !.Directives = MapPut(@, key, value)]

\* Builder.SetDirective
SetDirective(w, rawKey, value, at) ==
    LET key == TrimSpace(rawKey) IN
    IF key = <<>> THEN error(w, at, <<"directive key is empty">>)
    ELSE LET w1 == IF HasKey(w.Directives, key)
                   THEN warn(w, at, <<"directive %q overwritten", key>>)
                   ELSE w
         IN [w1 EXCEPT !.Directives = MapPut(@, key, value)]


----------------------------------------------------------------------------
(* BuilderSink.  A SymRef is [Name, TypeTag, At]; a Directive is           *)
(* [Kind, Key, Value, List, At]; an Alt is [RHS, Prec, HasPrec, At], where *)
(* HasPrec says that the Prec pointer is not nil.                          *)

\* BuilderSink.ParserError
ParserError(w, at, msg) == error(w, at, <<"%s", msg>>)

\* looksLikeTerminal: the loop over name[i..].
RECURSIVE looksLoop(_, _, _, _)
looksLoop(name, i, hasLetter, allUpperLetters) ==
    IF i > Len(name) THEN hasLetter /\ allUpperLetters
    ELSE IF IsLetter(name[i])
    THEN looksLoop(name, i + 1, TRUE,
                   IF ToUpper(name[i]) # name[i] THEN FALSE ELSE allUpperLetters)
    ELSE TRUE

looksLikeTerminal(name) ==
    IF name = <<>> THEN FALSE ELSE looksLoop(name, 1, FALSE, TRUE)

\* BuilderSink.resolveSymbolInRHS: ret is the resolved symbol.
resolveSymbolInRHS(w, sr) ==
    LET name == TrimSpace(sr.Name) IN
    IF name = <<>>
    THEN internDummy(error(w, sr.At, <<"rhs symbol name is empty">>), sr.At)
    ELSE IF name \in w.declTokens THEN EnsureTerminal(w, name, sr.At)
    ELSE IF Lookup(w, name) # NilSym THEN [w EXCEPT !.ret = Lookup(w, name)]
    ELSE IF w.UseHeuristicCapsAsTerminal /\ looksLikeTerminal(name)
    THEN EnsureTerminal(w, name, sr.At)
    ELSE EnsureNonterminal(w, name, sr.At)

\* DirToken: the loop over d.List[i..].
RECURSIVE tokenLoop(_, _, _)
tokenLoop(w, list, i) ==
    IF i > Len(list) THEN w
    ELSE LET name == TrimSpace(list[i].Name) IN
         IF name = <<>> THEN tokenLoop(w, list, i + 1)
         ELSE tokenLoop(EnsureTerminal([w EXCEPT !.declTokens = @ \cup {name}],
                                       name, list[i].At),
                        list, i + 1)

\* DirType: the loop over d.List[i..].
RECURSIVE typeLoop(_, _, _, _)
typeLoop(w, typeTag, list, i) ==
    IF i > Len(list) THEN w
    ELSE LET name == TrimSpace(list[i].Name) IN
         IF name = <<>> THEN typeLoop(w, typeTag, list, i + 1)
         ELSE LET w1 == EnsureNonterminal(w, name, list[i].At)
                  w2 == [w1 EXCEPT !.declTypes = MapPut(@, name, typeTag)]
              IN typeLoop(SetTypeTag(w2, w1.ret, typeTag, list[i].At),
                          typeTag, list, i + 1)

\* DirLeft, DirRight, DirNonassoc: the loop over d.List[i..]; the world's
\* ret accumulates terms.
RECURSIVE termListLoop(_, _, _)
termListLoop(w, list, i) ==
    IF i > Len(list) THEN w
    ELSE LET name == TrimSpace(list[i].Name) IN
         IF name = <<>> THEN termListLoop(w, list, i + 1)
         ELSE LET w1 == EnsureTerminal([w EXCEPT !.declTokens = @ \cup {name}],
                                       name, list[i].At)
              IN termListLoop([w1 EXCEPT !.ret = Append(w.ret, w1.ret)], list, i + 1)

\* The same over strings.Fields(d.Value).
RECURSIVE termFieldsLoop(_, _, _, _)
termFieldsLoop(w, fields, i, at) ==
    IF i > Len(fields) THEN w
    ELSE LET w1 == EnsureTerminal([w EXCEPT !.declTokens = @ \cup {fields[i]}],
                                  fields[i], at)
         IN termFieldsLoop([w1 EXCEPT !.ret = Append(w.ret, w1.ret)], fields, i + 1, at)

\* The associativity a precedence directive stands for.
dirAssoc(kind) ==
    CASE kind = DirLeft -> AssocLeft
      [] kind = DirRight -> AssocRight
      [] kind = DirNonassoc -> AssocNonassoc
      [] OTHER -> AssocNone

\* The terminals a precedence directive lists (ret), interned.
precedenceTerms(w, d) ==
    LET w1 == termListLoop([w EXCEPT !.ret = <<>>], d.List, 1)
    IN IF Len(w1.ret) = 0 THEN termFieldsLoop(w1, Fields(d.Value), 1, d.At) ELSE w1

\* BuilderSink.Directive
Directive(w, d) ==
    CASE d.Kind = DirStartSymbol ->
           LET name == TrimSpace(d.Value) IN
           IF name = <<>>
           THEN error(w, d.At, <<"%%start_symbol requires a symbol name">>)
           ELSE LET w1 == EnsureNonterminal(w, name, d.At)
                IN SetStart(w1, w1.ret, d.At)
      [] d.Kind = DirToken ->
           LET v == TrimSpace(d.Value)
               w1 == IF v # <<>>
                     THEN EnsureTerminal([w EXCEPT !.declTokens = @ \cup {v}], v, d.At)
                     ELSE w
           IN tokenLoop(w1, d.List, 1)
      [] d.Kind = DirType ->
           LET typeTag == TrimSpace(d.Value) IN
           IF typeTag = <<>>
           THEN error(w, d.At, <<"%%type requires a type tag">>)
           ELSE typeLoop(w, typeTag, d.List, 1)
      [] d.Kind = DirTokenType ->
           SetDirective(w, <<"t", "o", "k", "e", "n", "_", "t", "y", "p", "e">>, d.Value, d.At)
      [] d.Kind \in {DirLeft, DirRight, DirNonassoc} ->
           LET w1 == precedenceTerms(w, d) IN
           IF Len(w1.ret) = 0
           THEN error(w1, d.At, <<"precedence directive requires at least one terminal">>)
           ELSE DefinePrecedenceGroup(w1, dirAssoc(d.Kind), w1.ret, d.At)
      [] OTHER ->
           LET key == TrimSpace(d.Key)
           IN SetDirective(w, IF key = <<>> THEN <<"d", "i", "r", "e", "c", "t", "i", "v", "e">>
                                            ELSE key,
                           d.Value, d.At)

\* BuilderSink.BeginRule with a fault: an open rule is left open.
SinkBeginRuleNoClose(w, lhs) ==
    LET name == TrimSpace(lhs.Name)
    IN IF name = <<>> THEN error(w, lhs.At, <<"rule LHS is empty">>)
       ELSE LET w2 == EnsureNonterminal(w, name, lhs.At)
                w3 == [w2 EXCEPT !.curLHS = w2.ret]
                w4 == IF HasKey(w3.declTypes, name) /\ w3.declTypes[name] # <<>>
                      THEN SetTypeTag(w3, w3.curLHS, w3.declTypes[name], lhs.At)
                      ELSE w3
                w5 == BeginRule(w4, w4.curLHS, lhs.At)
            IN [w5 EXCEPT !.curRule = w5.ret]

\* BuilderSink.BeginRule
SinkBeginRule(w, lhs) ==
    LET w1 == IF w.curRule # NilRule
              THEN [End(warn(w, lhs.At, <<"begin rule while previous rule still open; closing previous rule">>),
                        w.curRule)
                      EXCEPT !.curRule = NilRule, !.curLHS = NilSym]
              ELSE w
        name == TrimSpace(lhs.Name)
    IN IF name = <<>> THEN error(w1, lhs.At, <<"rule LHS is empty">>)
       ELSE LET w2 == EnsureNonterminal(w1, name, lhs.At)
                w3 == [w2 EXCEPT !.curLHS = w2.ret]
                w4 == IF HasKey(w3.declTypes, name) /\ w3.declTypes[name] # <<>>
                      THEN SetTypeTag(w3, w3.curLHS, w3.declTypes[name], lhs.At)
                      ELSE w3
                w5 == BeginRule(w4, w4.curLHS, lhs.At)
            IN [w5 EXCEPT !.curRule = w5.ret]

\* BuilderSink.Alternative: the loop resolving alt.RHS[i..]; rhs is the
\* list of references built so far.
RECURSIVE resolveLoop(_, _, _, _)
resolveLoop(w, srs, i, rhs) ==
    IF i > Len(srs) THEN [w EXCEPT !.ret = rhs]
    ELSE LET w1 == resolveSymbolInRHS(w, srs[i])
             sym == w1.ret
             w2 == IF srs[i].TypeTag # <<>>
                   THEN SetTypeTag(w1, sym, srs[i].TypeTag, srs[i].At)
                   ELSE w1
             w3 == NewRef(w2, sym, srs[i].At)
         IN resolveLoop(w3, srs, i + 1, Append(rhs, w3.ret))

\* BuilderSink.Alternative with a fault: the RHS is resolved before the
\* open rule is checked.
AlternativeResolvesFirst(w, alt) ==
    LET w1 == resolveLoop(w, alt.RHS, 1, <<>>)
        rhs == w1.ret
        name == TrimSpace(alt.Prec.Name)
        w2 == IF ~alt.HasPrec THEN [w1 EXCEPT !.ret = NilSym]
              ELSE IF name = <<>>
              THEN [error(w1, alt.Prec.At, <<"precedence override symbol is empty">>)
                      EXCEPT !.ret = NilSym]
              ELSE EnsureTerminal([w1 EXCEPT !.declTokens = @ \cup {name}],
                                  name, alt.Prec.At)
    IN IF w.curRule = NilRule \/ w.curLHS = NilSym
       THEN error(w1, alt.At, <<"alternative encountered without an open rule">>)
       ELSE Alt(w2, w2.curRule, rhs, w2.ret, alt.At)

\* BuilderSink.Alternative
Alternative(w, alt) ==
    IF w.curRule = NilRule \/ w.curLHS = NilSym
    THEN error(w, alt.At, <<"alternative encountered without an open rule">>)
    ELSE LET w1 == resolveLoop(w, alt.RHS, 1, <<>>)
             rhs == w1.ret
             name == TrimSpace(alt.Prec.Name)
             w2 == IF ~alt.HasPrec THEN [w1 EXCEPT !.ret = NilSym]
                   ELSE IF name = <<>>
                   THEN [error(w1, alt.Prec.At, <<"precedence override symbol is empty">>)
                           EXCEPT !.ret = NilSym]
                   ELSE EnsureTerminal([w1 EXCEPT !.declTokens = @ \cup {name}],
                                       name, alt.Prec.At)
         IN Alt(w2, w2.curRule, rhs, w2.ret, alt.At)

\* BuilderSink.EndRule
EndRule(w, at) ==
    IF w.curRule = NilRule THEN w
    ELSE [End(w, w.curRule) EXCEPT !.curRule = NilRule, !.curLHS = NilSym]


----------------------------------------------------------------------------
(* Builder.Finalize.  Go leaves the iteration order of a map unspecified;  *)
(* ord, a permutation of the symbol pointers, is the order in which the    *)
(* run visits keys: every range over a map visits its keys in their order  *)
(* in ord.  The two ranges that append diagnostics (over used and over     *)
(* lhsHasRule) append for disjoint sets of symbols, the former only for    *)
(* symbols without a rule and the latter only for symbols with one, so one *)
(* permutation yields every pair of orders the two ranges can produce.     *)

\* The keys of a map in the order the run visits them.
KeysInOrder(keys, ord) == SelectSeq(ord, LAMBDA p : p \in keys)

\* used[sym], 0 for a missing key.
usedCount(used, sym) == IF HasKey(used, sym) THEN used[sym] ELSE 0

\* 2) lhsHasRule, over Rules[i..].
RECURSIVE lhsLoop(_, _, _)
lhsLoop(w, i, lhsHasRule) ==
    IF i > Len(w.Rules) THEN [w |-> w, lhsHasRule |-> lhsHasRule]
    ELSE LET r == w.Rules[i] IN
         IF r.LHS = NilSym
         THEN lhsLoop(error(w, NilSpan, <<"rule has nil LHS">>), i + 1, lhsHasRule)
         ELSE lhsLoop(IF w.Symbols[r.LHS].Kind # SymNonterminal
                      THEN error(w, r.At, <<"rule LHS %q must be a nonterminal",
                                            w.Symbols[r.LHS].Name>>)
                      ELSE w,
                      i + 1, lhsHasRule \cup {r.LHS})

\* 3) the RHS references alt.RHS[pos..] of an alternative of rule r;
\* f is [w, used, edges].
RECURSIVE rhsLoop(_, _, _, _)
rhsLoop(f, r, alt, pos) ==
    IF pos > Len(alt.RHS) THEN f
    ELSE LET sym == alt.RHS[pos] IN
         IF sym = NilSym
         THEN rhsLoop([f EXCEPT !.w = error(@, alt.At,
                                   <<"rule %q has nil rhs symbol at position %d",
                                     f.w.Symbols[r.LHS].Name, pos - 1>>)],
                      r, alt, pos + 1)
         ELSE rhsLoop([f EXCEPT !.used = MapPut(@, sym, usedCount(@, sym) + 1),
                                !.edges = IF f.w.Symbols[sym].Kind = SymNonterminal
                                          THEN MapPut(f.edges, r.LHS, f.edges[r.LHS] \cup {sym})
                                          ELSE f.edges],
                      r, alt, pos + 1)

\* 3) the precedence override of an alternative.
precCheck(f, alt) ==
    IF alt.PrecSym = NilSym THEN f
    ELSE LET w1 == IF f.w.Symbols[alt.PrecSym].Kind # SymTerminal
                   THEN error(f.w, alt.At, <<"precedence override symbol %q must be a terminal",
                                             f.w.Symbols[alt.PrecSym].Name>>)
                   ELSE IF f.w.Symbols[alt.PrecSym].Precedence = 0
                   THEN warn(f.w, alt.At,
                             <<"precedence override uses %q, but it has no precedence (missing %%left/%%right/%%nonassoc?)",
                               f.w.Symbols[alt.PrecSym].Name>>)
                   ELSE f.w
         IN [f EXCEPT !.w = w1,
                      !.used = MapPut(@, alt.PrecSym, usedCount(@, alt.PrecSym) + 1)]

\* 3) the alternatives r.Alternatives[j..].
RECURSIVE altLoop(_, _, _)
altLoop(f, r, j) ==
    IF j > Len(r.Alternatives) THEN f
    ELSE altLoop(precCheck(rhsLoop(f, r, r.Alternatives[j], 1), r.Alternatives[j]),
                 r, j + 1)

\* 3) the productions Rules[i..].
RECURSIVE ruleLoop(_, _)
ruleLoop(f, i) ==
    IF i > Len(f.w.Rules) THEN f
    ELSE LET r == f.w.Rules[i] IN
         IF r.LHS = NilSym THEN ruleLoop(f, i + 1)
         ELSE LET f1 == IF HasKey(f.edges, r.LHS) THEN f
                        ELSE [f EXCEPT !.edges = MapPut(@, r.LHS, {})]
              IN IF Len(r.Alternatives) = 0
                 THEN ruleLoop([f1 EXCEPT !.w = warn(@, r.At,
                                             <<"rule %q has no alternatives",
                                               f.w.Symbols[r.LHS].Name>>)],
                               i + 1)
                 ELSE ruleLoop(altLoop(f1, r, 1), i + 1)

RECURSIVE undefinedLoop(_, _, _, _, _)

\* undefinedLoop with a fault: lhsHasRule is not consulted.
undefinedLoopIgnoresRules(w, used, lhsHasRule, order, i) ==
    IF i > Len(order) THEN w
    ELSE LET sym == order[i] IN
         IF used[sym] = 0 \/ sym = NilSym
         THEN undefinedLoop(w, used, lhsHasRule, order, i + 1)
         ELSE undefinedLoop(
                  IF w.Symbols[sym].Kind = SymNonterminal
                  THEN error(w, w.Symbols[sym].DeclaredAt,
                             <<"nonterminal %q is used but has no rule", w.Symbols[sym].Name>>)
                  ELSE w,
                  used, lhsHasRule, order, i + 1)

\* 4) undefined nonterminals, over the keys order[i..] of used.
undefinedLoop(w, used, lhsHasRule, order, i) ==
    IF i > Len(order) THEN w
    ELSE LET sym == order[i] IN
         IF used[sym] = 0 \/ sym = NilSym
         THEN undefinedLoop(w, used, lhsHasRule, order, i + 1)
         ELSE undefinedLoop(
                  IF w.Symbols[sym].Kind = SymNonterminal /\ sym \notin lhsHasRule
                  THEN error(w, w.Symbols[sym].DeclaredAt,
                             <<"nonterminal %q is used but has no rule", w.Symbols[sym].Name>>)
                  ELSE w,
                  used, lhsHasRule, order, i + 1)

RECURSIVE nextLoop(_, _, _, _)

\* nextLoop with a fault: a new successor is marked but not pushed.
nextLoopNoPush(w, s, nexts, i) ==
    IF i > Len(nexts) THEN s
    ELSE LET next == nexts[i] IN
         IF next = NilSym \/ w.Symbols[next].Kind # SymNonterminal
         THEN nextLoop(w, s, nexts, i + 1)
         ELSE IF next \notin s.reachable
         THEN nextLoop(w, [stack |-> s.stack,
                           reachable |-> s.reachable \cup {next}],
                       nexts, i + 1)
         ELSE nextLoop(w, s, nexts, i + 1)

\* 5) the successors nexts[i..] of a nonterminal popped from the stack;
\* s is [stack, reachable].
nextLoop(w, s, nexts, i) ==
    IF i > Len(nexts) THEN s
    ELSE LET next == nexts[i] IN
         IF next = NilSym \/ w.Symbols[next].Kind # SymNonterminal
         THEN nextLoop(w, s, nexts, i + 1)
         ELSE IF next \notin s.reachable
         THEN nextLoop(w, [stack |-> Append(s.stack, next),
                           reachable |-> s.reachable \cup {next}],
                       nexts, i + 1)
         ELSE nextLoop(w, s, nexts, i + 1)

\* 5) the search from the start symbol: pop, visit the successors.
RECURSIVE reachLoop(_, _, _, _)
reachLoop(w, s, edges, ord) ==
    IF Len(s.stack) = 0 THEN s.reachable
    ELSE LET nt == s.stack[Len(s.stack)]
             popped == [s EXCEPT !.stack = SubSeq(@, 1, Len(@) - 1)]
             nexts == IF HasKey(edges, nt) THEN KeysInOrder(edges[nt], ord) ELSE <<>>
         IN reachLoop(w, nextLoop(w, popped, nexts, 1), edges, ord)

\* 5) the warnings, over the keys order[i..] of lhsHasRule.
RECURSIVE unreachableLoop(_, _, _, _)
unreachableLoop(w, reachable, order, i) ==
    IF i > Len(order) THEN w
    ELSE LET nt == order[i] IN
         IF nt = NilSym THEN unreachableLoop(w, reachable, order, i + 1)
         ELSE unreachableLoop(
                  IF nt \notin reachable
                  THEN warn(w, w.Symbols[nt].DeclaredAt,
                            <<"nonterminal %q has rules but is unreachable from start symbol %q",
                              w.Symbols[nt].Name, w.Symbols[w.Start].Name>>)
                  ELSE w,
                  reachable, order, i + 1)

\* 5) reachability from the start symbol.
reachability(w, lhsHasRule, edges, ord) ==
    IF w.Start # NilSym /\ w.Symbols[w.Start].Kind = SymNonterminal
    THEN LET reachable == reachLoop(w, [stack |-> <<w.Start>>, reachable |-> {w.Start}],
                                    edges, ord)
         IN unreachableLoop(w, reachable, KeysInOrder(lhsHasRule, ord), 1)
    ELSE w

RECURSIVE unusedLoop(_, _, _, _)

\* unusedLoop with a fault: the dummy placeholder is not skipped.
unusedLoopWarnsDummy(w, used, lhsHasRule, i) ==
    IF i > Len(w.Symbols) THEN w
    ELSE LET sym == w.Symbols[i] IN
         IF usedCount(used, i) = 0
         THEN unusedLoop(
                  CASE sym.Kind = SymTerminal ->
                         warn(w, sym.DeclaredAt, <<"terminal %q is declared but never used", sym.Name>>)
                    [] sym.Kind = SymNonterminal ->
                         IF i \in lhsHasRule
                         THEN warn(w, sym.DeclaredAt,
                                   <<"nonterminal %q has rules but is never referenced (except as LHS)", sym.Name>>)
                         ELSE warn(w, sym.DeclaredAt,
                                   <<"nonterminal %q is declared but never used and has no rules", sym.Name>>)
                    [] OTHER -> w,
                  used, lhsHasRule, i + 1)
         ELSE unusedLoop(w, used, lhsHasRule, i + 1)

\* 6) unused symbols, over Symbols[i..].
unusedLoop(w, used, lhsHasRule, i) ==
    IF i > Len(w.Symbols) THEN w
    ELSE LET sym == w.Symbols[i] IN
         IF sym.Name = InvalidName THEN unusedLoop(w, used, lhsHasRule, i + 1)
         ELSE IF usedCount(used, i) = 0
         THEN unusedLoop(
                  CASE sym.Kind = SymTerminal ->
                         warn(w, sym.DeclaredAt, <<"terminal %q is declared but never used", sym.Name>>)
                    [] sym.Kind = SymNonterminal ->
                         IF i \in lhsHasRule
                         THEN warn(w, sym.DeclaredAt,
                                   <<"nonterminal %q has rules but is never referenced (except as LHS)", sym.Name>>)
                         ELSE warn(w, sym.DeclaredAt,
                                   <<"nonterminal %q is declared but never used and has no rules", sym.Name>>)
                    [] OTHER -> w,
                  used, lhsHasRule, i + 1)
         ELSE unusedLoop(w, used, lhsHasRule, i + 1)

\* Finalize with a fault: the checks go on after "grammar has no rules".
FinalizeNoEarlyReturn(w, ord) ==
    LET w0 == IF Len(w.Rules) = 0
              THEN error(w, NilSpan, <<"grammar has no rules">>) ELSE w
        w1 == IF w0.Start = NilSym
              THEN error(w0, NilSpan, <<"start symbol is not set and could not be inferred">>)
              ELSE IF w0.Symbols[w0.Start].Kind # SymNonterminal
              THEN error(w0, w0.Symbols[w0.Start].DeclaredAt,
                         <<"start symbol %q must be a nonterminal", w0.Symbols[w0.Start].Name>>)
              ELSE w0
        l == lhsLoop(w1, 1, {})
        f == ruleLoop([w |-> l.w, used |-> EmptyMap, edges |-> EmptyMap], 1)
        w4 == undefinedLoop(f.w, f.used, l.lhsHasRule,
                            KeysInOrder(DOMAIN f.used, ord), 1)
        w5 == reachability(w4, l.lhsHasRule, f.edges, ord)
    IN unusedLoop(w5, f.used, l.lhsHasRule, 1)

\* Builder.Finalize
Finalize(w, ord) ==
    IF Len(w.Rules) = 0 THEN error(w, NilSpan, <<"grammar has no rules">>)
    ELSE LET w1 == IF w.Start = NilSym
                   THEN error(w, NilSpan, <<"start symbol is not set and could not be inferred">>)
                   ELSE IF w.Symbols[w.Start].Kind # SymNonterminal
                   THEN error(w, w.Symbols[w.Start].DeclaredAt,
                              <<"start symbol %q must be a nonterminal", w.Symbols[w.Start].Name>>)
                   ELSE w
             l == lhsLoop(w1, 1, {})
             f == ruleLoop([w |-> l.w, used |-> EmptyMap, edges |-> EmptyMap], 1)
             w4 == undefinedLoop(f.w, f.used, l.lhsHasRule,
                                 KeysInOrder(DOMAIN f.used, ord), 1)
             w5 == reachability(w4, l.lhsHasRule, f.edges, ord)
         IN unusedLoop(w5, f.used, l.lhsHasRule, 1)


----------------------------------------------------------------------------
(* The state machine.  Every action is one call of a method of Builder,    *)
(* RuleBuilder or BuilderSink, made by the grammar-file parser or another  *)
(* caller; last records the call and ret its result.  hist is history the  *)
(* properties read and the program does not:                               *)
(*   steps     the number of calls made so far                             *)
(*   groups    the number of DefinePrecedenceGroup calls made with an      *)
(*             associativity other than AssocNone                          *)
(*   sinkOnly  whether every call so far was a Sink event (or the driver's *)
(*             Finalize after them)                                        *)
(*   startDir  the symbol named by the most recent start_symbol directive  *)
(*             that named a nonterminal (NilSym if there was none)         *)
(*   finalized whether Finalize has been called                            *)

\* Spec: at most this many calls are made.
MaxCalls == 4

\* SinkSpec: at most this many events (and Finalize calls) are made.
MaxEvents == 3

\* AllSpec: at most this many calls and events are made.
MaxMixed == 2

\* FinalizeSpec: the grammars have at most this many rules, and Finalize is
\* called at most this many times.
MaxRules == 3
MaxFinalize == 1

\* The span every caller passes (the callers of the model pass no nil span).
SomeSpan == "span"

Commit(w) ==
    /\ Symbols' = w.Symbols
    /\ SymbolsByName' = w.SymbolsByName
    /\ Rules' = w.Rules
    /\ Start' = w.Start
    /\ Directives' = w.Directives
    /\ precedenceCounter' = w.precedenceCounter
    /\ diags' = w.diags
    /\ rbDone' = w.rbDone
    /\ curRule' = w.curRule
    /\ curLHS' = w.curLHS
    /\ declTokens' = w.declTokens
    /\ declTypes' = w.declTypes
    /\ UseHeuristicCapsAsTerminal' = w.UseHeuristicCapsAsTerminal
    /\ ret' = w.ret

\* The state w as the initial state.
Load(w) ==
    /\ Symbols = w.Symbols
    /\ SymbolsByName = w.SymbolsByName
    /\ Rules = w.Rules
    /\ Start = w.Start
    /\ Directives = w.Directives
    /\ precedenceCounter = w.precedenceCounter
    /\ diags = w.diags
    /\ rbDone = w.rbDone
    /\ curRule = w.curRule
    /\ curLHS = w.curLHS
    /\ declTokens = w.declTokens
    /\ declTypes = w.declTypes
    /\ UseHeuristicCapsAsTerminal = w.UseHeuristicCapsAsTerminal
    /\ ret = w.ret

HistInit ==
    [steps |-> 0, groups |-> 0, sinkOnly |-> TRUE, startDir |-> NilSym, finalized |-> FALSE]

\* The state after NewBuilder and NewBuilderSink.
Init ==
    /\ Load(NewBuilder)
    /\ last = [op |-> "NewBuilder", args |-> <<>>]
    /\ hist = HistInit

\* A call of the Builder API (not a Sink event) that is no precedence group.
BuilderCall(op, args, w) ==
    /\ hist.steps < MaxCalls
    /\ Commit(w)
    /\ last' = [op |-> op, args |-> args]
    /\ hist' = [hist EXCEPT !.steps = @ + 1, !.sinkOnly = FALSE]

\* The symbol pointers a caller can hold, and nil.
Ptrs == 1..Len(Symbols)
PtrsOrNil == 0..Len(Symbols)
RuleBuilders == 1..Len(Rules)

----------------------------------------------------------------------------
(* Spec: the Builder API called directly, from NewBuilder.                 *)

Kinds == {SymTerminal, SymNonterminal}
Assocs == {AssocNone, AssocLeft, AssocRight, AssocNonassoc}

\* Names as callers write them: with and without surrounding blanks, empty.
CallNames == {<<"e">>, <<" ", "e">>, <<"N">>, <<" ">>}
CallTags == {<<"t">>, <<"t", " ">>, <<"u">>, <<" ">>}
CallKeys == {<<"k">>, <<"k", " ">>, <<"j">>, <<>>}
CallValues == {<<"v">>, <<"x">>}
\* The lists of terminals of a precedence group, over the first two symbols.
CallTerminals == {<<>>, <<1>>, <<2>>, <<1, 2>>, <<1, 1>>, <<NilSym, 2>>}
\* The right-hand sides of an alternative, over the first two symbols.
CallRHS == {<<>>, <<1>>, <<2, 1>>, <<NilSym>>}

CallIntern ==
    \E name \in CallNames, kind \in Kinds :
        BuilderCall("Intern", <<name, kind>>, Intern(World, name, kind, SomeSpan))

CallSetTypeTag ==
    \E sym \in PtrsOrNil, tag \in CallTags :
        BuilderCall("SetTypeTag", <<sym, tag>>, SetTypeTag(World, sym, tag, SomeSpan))

CallSetStart ==
    \E sym \in PtrsOrNil :
        BuilderCall("SetStart", <<sym>>, SetStart(World, sym, SomeSpan))

CallDefinePrecedenceGroup ==
    \E assoc \in Assocs, terminals \in CallTerminals :
        /\ hist.steps < MaxCalls
        /\ \A i \in 1..Len(terminals) : terminals[i] \in PtrsOrNil
        /\ Commit(DefinePrecedenceGroup(World, assoc, terminals, SomeSpan))
        /\ last' = [op |-> "DefinePrecedenceGroup", args |-> <<assoc, terminals>>]
        /\ hist' = [hist EXCEPT !.steps = @ + 1, !.sinkOnly = FALSE,
                                !.groups = IF assoc = AssocNone THEN @ ELSE @ + 1]

CallBeginRule ==
    \E lhs \in PtrsOrNil :
        BuilderCall("BeginRule", <<lhs>>, BeginRule(World, lhs, SomeSpan))

CallAlt ==
    \E rb \in RuleBuilders, rhs \in CallRHS, prec \in PtrsOrNil :
        /\ \A i \in 1..Len(rhs) : rhs[i] \in PtrsOrNil
        /\ BuilderCall("Alt", <<rb, rhs, prec>>, Alt(World, rb, rhs, prec, SomeSpan))

CallEnd ==
    \E rb \in RuleBuilders :
        BuilderCall("End", <<rb>>, End(World, rb))

CallNewRef ==
    \E sym \in PtrsOrNil :
        BuilderCall("NewRef", <<sym>>, NewRef(World, sym, SomeSpan))

CallSetDirective ==
    \E key \in CallKeys, value \in CallValues :
        BuilderCall("SetDirective", <<key, value>>, SetDirective(World, key, value, SomeSpan))

\* The symbols that are keys of the maps of Finalize (lhsHasRule, used,
\* edges and its inner maps): those the rules mention.
RuleSymbols ==
    UNION {{Rules[i].LHS}
           \cup UNION {{Rules[i].Alternatives[j].PrecSym}
                       \cup {Rules[i].Alternatives[j].RHS[k] :
                                k \in 1..Len(Rules[i].Alternatives[j].RHS)} :
                       j \in 1..Len(Rules[i].Alternatives)} :
           i \in 1..Len(Rules)} \ {NilSym}

\* The sequences that hold each element of S once.
RECURSIVE Perms(_)
Perms(S) ==
    IF S = {} THEN {<<>>}
    ELSE UNION {{<<x>> \o p : p \in Perms(S \ {x})} : x \in S}

\* The orders in which a run of Finalize can visit the keys of its maps.
Orders == Perms(RuleSymbols)

CallFinalize ==
    \E ord \in Orders :
        /\ hist.steps < MaxCalls
        /\ Commit(Finalize(World, ord))
        /\ last' = [op |-> "Finalize", args |-> <<>>]
        /\ hist' = [hist EXCEPT !.steps = @ + 1, !.sinkOnly = FALSE, !.finalized = TRUE]

Next ==
    \/ CallIntern
    \/ CallSetTypeTag
    \/ CallSetStart
    \/ CallDefinePrecedenceGroup
    \/ CallBeginRule
    \/ CallAlt
    \/ CallEnd
    \/ CallNewRef
    \/ CallSetDirective
    \/ CallFinalize

Spec == Init /\ [][Next]_vars

----------------------------------------------------------------------------
(* SinkSpec: the events of the grammar-file parser, from NewBuilder and    *)
(* NewBuilderSink, and the driver's Finalize.                              *)

Ref(name) == [Name |-> name, TypeTag |-> <<>>, At |-> SomeSpan]
TypedRef(name, tag) == [Name |-> name, TypeTag |-> tag, At |-> SomeSpan]
Dir(kind, key, value, list) ==
    [Kind |-> kind, Key |-> key, Value |-> value, List |-> list, At |-> SomeSpan]
AltOf(rhs) == [RHS |-> rhs, Prec |-> Ref(<<>>), HasPrec |-> FALSE, At |-> SomeSpan]
AltPrec(rhs, prec) == [RHS |-> rhs, Prec |-> Ref(prec), HasPrec |-> TRUE, At |-> SomeSpan]

SinkDirectives ==
    {Dir(DirStartSymbol, <<>>, <<"e">>, <<>>),
     Dir(DirStartSymbol, <<>>, <<" ", "s">>, <<>>),
     Dir(DirStartSymbol, <<>>, <<"N">>, <<>>),
     Dir(DirStartSymbol, <<>>, <<" ">>, <<>>),
     Dir(DirToken, <<>>, <<"N">>, <<>>),
     Dir(DirToken, <<>>, <<>>, <<Ref(<<"e">>), Ref(<<" ">>), Ref(<<"X">>)>>),
     Dir(DirType, <<>>, <<"t">>, <<Ref(<<"e">>)>>),
     Dir(DirType, <<>>, <<"u", " ">>, <<Ref(<<"e">>), Ref(<<"s">>)>>),
     Dir(DirType, <<>>, <<" ">>, <<Ref(<<"e">>)>>),
     Dir(DirTokenType, <<>>, <<"t">>, <<>>),
     Dir(DirLeft, <<>>, <<>>, <<Ref(<<"N">>)>>),
     Dir(DirRight, <<>>, <<>>, <<Ref(<<"N">>), Ref(<<"X">>)>>),
     Dir(DirRight, <<>>, <<"X", " ", "e">>, <<>>),
     Dir(DirNonassoc, <<>>, <<" ">>, <<Ref(<<>>)>>),
     Dir(DirNonassoc, <<>>, <<>>, <<Ref(<<"X">>)>>),
     Dir(DirInclude, <<"k">>, <<"v">>, <<>>),
     Dir(DirUnknown, <<" ">>, <<"x">>, <<>>)}

SinkLHS == {<<"e">>, <<"s", " ">>, <<"N">>, <<>>}

SinkAlts ==
    {AltOf(<<>>),
     AltOf(<<Ref(<<"e">>), Ref(<<"N">>)>>),
     AltOf(<<Ref(<<"s">>), Ref(<<"N", "e">>), Ref(<<" ">>)>>),
     AltOf(<<TypedRef(<<"e">>, <<"u">>)>>),
     AltOf(<<Ref(<<"U+65E5">>)>>),
     AltPrec(<<Ref(<<"X">>)>>, <<"N">>),
     AltPrec(<<Ref(<<"N">>)>>, <<"e">>),
     AltPrec(<<>>, <<" ">>)}

\* Whether directive d makes the sink call DefinePrecedenceGroup.
CallsPrecedenceGroup(w, d) ==
    d.Kind \in {DirLeft, DirRight, DirNonassoc} /\ Len(precedenceTerms(w, d).ret) > 0

\* The symbol a start_symbol directive names, once the directive is
\* processed, if it is a nonterminal; otherwise what startDir was.
NamedStart(w, d, old) ==
    IF d.Kind = DirStartSymbol /\ Lookup(w, d.Value) # NilSym
       /\ w.Symbols[Lookup(w, d.Value)].Kind = SymNonterminal
    THEN Lookup(w, d.Value)
    ELSE old

SinkEvent(op, args, w) ==
    /\ hist.steps < MaxEvents
    /\ Commit(w)
    /\ last' = [op |-> op, args |-> args]
    /\ hist' = [hist EXCEPT !.steps = @ + 1]

EventDirective ==
    \E d \in SinkDirectives :
        LET w == Directive(World, d) IN
        /\ hist.steps < MaxEvents
        /\ Commit(w)
        /\ last' = [op |-> "Directive", args |-> <<d>>]
        /\ hist' = [hist EXCEPT !.steps = @ + 1,
                                !.groups = IF CallsPrecedenceGroup(World, d) THEN @ + 1 ELSE @,
                                !.startDir = NamedStart(w, d, @)]

EventBeginRule ==
    \E name \in SinkLHS :
        SinkEvent("Sink.BeginRule", <<name>>, SinkBeginRule(World, Ref(name)))

EventAlternative ==
    \E alt \in SinkAlts :
        SinkEvent("Alternative", <<alt>>, Alternative(World, alt))

EventEndRule == SinkEvent("EndRule", <<>>, EndRule(World, SomeSpan))

EventParserError == SinkEvent("ParserError", <<>>, ParserError(World, SomeSpan, "syntax error"))

\* The driver calls Finalize after the events.
EventFinalize ==
    \E ord \in Orders :
        /\ hist.steps < MaxEvents
        /\ Commit(Finalize(World, ord))
        /\ last' = [op |-> "Finalize", args |-> <<>>]
        /\ hist' = [hist EXCEPT !.steps = @ + 1, !.finalized = TRUE]

SinkNext ==
    \/ EventDirective
    \/ EventBeginRule
    \/ EventAlternative
    \/ EventEndRule
    \/ EventParserError
    \/ EventFinalize

SinkSpec == Init /\ [][SinkNext]_vars

\* HeuristicSpec: the same events, after a driver that may have cleared
\* the exported field UseHeuristicCapsAsTerminal of its new sink.
HeuristicInit ==
    /\ \E v \in BOOLEAN : Load([NewBuilder EXCEPT !.UseHeuristicCapsAsTerminal = v])
    /\ last = [op |-> "NewBuilder", args |-> <<>>]
    /\ hist = HistInit

HeuristicSpec == HeuristicInit /\ [][SinkNext]_vars

----------------------------------------------------------------------------
(* FinalizeSpec: Finalize on the grammars a driver builds with the Builder *)
(* API: it interns the symbols, may set the start symbol, and for each     *)
(* rule calls BeginRule, Alt for each alternative, and End.  The initial   *)
(* states are the states these calls lead to from NewBuilder.              *)

\* The alternatives alts[j..] of a rule under construction.
RECURSIVE buildAlts(_, _, _, _)
buildAlts(w, rb, alts, j) ==
    IF j > Len(alts) THEN w
    ELSE buildAlts(Alt(w, rb, alts[j].rhs, alts[j].prec, SomeSpan), rb, alts, j + 1)

\* The rules rules[i..].
RECURSIVE buildRules(_, _, _)
buildRules(w, rules, i) ==
    IF i > Len(rules) THEN w
    ELSE LET w1 == BeginRule(w, rules[i].lhs, SomeSpan)
             w2 == buildAlts(w1, w1.ret, rules[i].alts, 1)
         IN buildRules(End(w2, w1.ret), rules, i + 1)

\* The driver: symbols s, a, b (nonterminals) and X (a terminal) are
\* pointers 1 to 4.
DriverGrammar(start, rules) ==
    LET w1 == EnsureNonterminal(NewBuilder, <<"s">>, SomeSpan)
        w2 == EnsureNonterminal(w1, <<"a">>, SomeSpan)
        w3 == EnsureNonterminal(w2, <<"b">>, SomeSpan)
        w4 == EnsureTerminal(w3, <<"X">>, SomeSpan)
        w5 == SetStart(w4, start, SomeSpan)
    IN buildRules(w5, rules, 1)

A1(rhs) == <<[rhs |-> rhs, prec |-> NilSym]>>
FinRule(lhs, alts) == [lhs |-> lhs, alts |-> alts]

\* The rules the grammars are made of.
FinRules ==
    {FinRule(1, A1(<<2>>)),                                 \* s ::= a.
     FinRule(1, A1(<<4>>)),                                 \* s ::= X.
     FinRule(1, A1(<<2, 4>>) \o A1(<<3>>)),                 \* s ::= a X.  s ::= b.
     FinRule(2, A1(<<3>>)),                                 \* a ::= b.
     FinRule(2, A1(<<2, 4>>)),                              \* a ::= a X.
     FinRule(2, A1(<<>>)),                                  \* a ::= .
     FinRule(2, A1(<<3, 3>>)),                              \* a ::= b b.
     FinRule(3, A1(<<4>>)),                                 \* b ::= X.
     FinRule(3, A1(<<2>>)),                                 \* b ::= a.
     FinRule(3, <<>>),                                      \* b, no alternative
     FinRule(4, A1(<<3>>)),                                 \* X ::= b.
     FinRule(2, <<[rhs |-> <<NilSym, 1>>, prec |-> 4]>>)}   \* a ::= nil s. [X]

FinStarts == {NilSym, 2}

SeqsUpTo(S, n) == UNION {[1..k -> S] : k \in 0..n}

FinalizeInit ==
    \E start \in FinStarts, rules \in SeqsUpTo(FinRules, MaxRules) :
        /\ Load(DriverGrammar(start, rules))
        /\ last = [op |-> "DriverGrammar", args |-> <<start, rules>>]
        /\ hist = [HistInit EXCEPT !.sinkOnly = FALSE]

FinFinalize ==
    \E ord \in Orders :
        /\ hist.steps < MaxFinalize
        /\ Commit(Finalize(World, ord))
        /\ last' = [op |-> "Finalize", args |-> <<>>]
        /\ hist' = [hist EXCEPT !.steps = @ + 1, !.finalized = TRUE]

FinalizeNext == FinFinalize

FinalizeSpec == FinalizeInit /\ [][FinalizeNext]_vars

----------------------------------------------------------------------------
(* AllSpec: Builder calls and Sink events interleaved, from NewBuilder.    *)

AllNext ==
    \/ (hist.steps < MaxMixed /\ CallIntern)
    \/ (hist.steps < MaxMixed /\ CallSetTypeTag)
    \/ (hist.steps < MaxMixed /\ CallSetStart)
    \/ (hist.steps < MaxMixed /\ CallDefinePrecedenceGroup)
    \/ (hist.steps < MaxMixed /\ CallBeginRule)
    \/ (hist.steps < MaxMixed /\ CallAlt)
    \/ (hist.steps < MaxMixed /\ CallEnd)
    \/ (hist.steps < MaxMixed /\ CallNewRef)
    \/ (hist.steps < MaxMixed /\ CallSetDirective)
    \/ (hist.steps < MaxMixed /\ CallFinalize)
    \/ (hist.steps < MaxMixed /\ EventDirective)
    \/ (hist.steps < MaxMixed /\ EventBeginRule)
    \/ (hist.steps < MaxMixed /\ EventAlternative)
    \/ (hist.steps < MaxMixed /\ EventEndRule)
    \/ (hist.steps < MaxMixed /\ EventParserError)

AllSpec == Init /\ [][AllNext]_vars

----------------------------------------------------------------------------
(* Properties *)

\* The diagnostics a step appends.
NewDiags == SubSeq(diags', Len(diags) + 1, Len(diags'))
\* A step only appends to the diagnostics.
AppendsOnly == Len(diags') >= Len(diags) /\ SubSeq(diags', 1, Len(diags)) = diags
\* The number of positions of seq that satisfy P.
Count(seq, P(_)) == Cardinality({i \in 1..Len(seq) : P(seq[i])})

KindConflictMsg == "symbol %q previously declared as %s, cannot redeclare as %s"

\* C1: a call Intern(name, kind) whose trimmed name is already in the symbol
\* table returns the symbol of that name, adds no symbol and changes no
\* symbol (so never its Kind), and appends exactly one error diagnostic if
\* kind differs from the stored kind and no diagnostic if it is the same.
C1_InternKnownName ==
    [][(/\ last'.op = "Intern"
        /\ \E p \in Ptrs : Symbols[p].Name = TrimSpace(last'.args[1]))
       => LET name == TrimSpace(last'.args[1])
              kind == last'.args[2]
              p == CHOOSE q \in Ptrs : Symbols[q].Name = name
          IN /\ ret' = p
             /\ Symbols' = Symbols
             /\ SymbolsByName' = SymbolsByName
             /\ AppendsOnly
             /\ IF Symbols[p].Kind # kind
                THEN /\ Len(NewDiags) = 1
                     /\ NewDiags[1].Level = DiagError
                ELSE NewDiags = <<>>]_vars

\* C1 witness: a second Intern of a known name with the other kind returned
\* the one symbol of the table and left one kind-conflict error.
C1_Witness ==
    /\ last.op = "Intern"
    /\ hist.steps >= 2
    /\ Len(Symbols) = 1
    /\ ret = 1
    /\ last.args[2] # Symbols[1].Kind
    /\ last.args[1] # Symbols[1].Name
    /\ Len(diags) = 1
    /\ diags[1].Msg[1] = KindConflictMsg

\* C2: the symbol table is dense and name-unique: Symbols[i].ID = i
\* (0-based), no two symbols have the same name, and SymbolsByName maps each
\* symbol's name to that symbol and has no other entry.
C2_DenseUniqueTable ==
    /\ \A i \in Ptrs : Symbols[i].ID = i - 1
    /\ \A i, j \in Ptrs : i # j => Symbols[i].Name # Symbols[j].Name
    /\ DOMAIN SymbolsByName = {Symbols[i].Name : i \in Ptrs}
    /\ \A i \in Ptrs : SymbolsByName[Symbols[i].Name] = i

\* C2 witness: a table of a terminal and a nonterminal on which an Intern of
\* a name under the other kind was refused.
C2_Witness ==
    /\ Len(Symbols) >= 2
    /\ \E i, j \in Ptrs : Symbols[i].Kind = SymTerminal /\ Symbols[j].Kind = SymNonterminal
    /\ \E k \in 1..Len(diags) : diags[k].Msg[1] = KindConflictMsg

\* C3: the end-of-input marker $ exists at every point, is a terminal and
\* has symbol ID 0.
C3_EofIsSymbolZero ==
    /\ Len(Symbols) >= 1
    /\ Symbols[1].ID = 0
    /\ Symbols[1].Name = <<"$">>
    /\ Symbols[1].Kind = SymTerminal

NoAssocMsg == "precedence group must have associativity (left/right/nonassoc)"
HasPrecedenceMsg == "terminal %q already has precedence %d; ignoring new precedence %d"
HasTypeMsg == "symbol %q already has type %q; cannot set to %q"

\* C5: let N be the number of DefinePrecedenceGroup calls made so far, this
\* one included, with an associativity of Left, Right or Nonassoc.  Such a
\* call gives level N (and its associativity) to every listed terminal that
\* had level 0, and whatever symbol's level it changes becomes N; so a call
\* that assigns nothing still uses up its level.  A call with AssocNone
\* appends exactly one error, changes no symbol and is not counted in N.
C5_LevelIsGroupCount ==
    [][last'.op = "DefinePrecedenceGroup"
       => LET assoc == last'.args[1]
              terms == last'.args[2]
              N == hist'.groups
          IN /\ Len(Symbols') = Len(Symbols)
             /\ AppendsOnly
             /\ IF assoc = AssocNone
                THEN /\ Symbols' = Symbols
                     /\ Len(NewDiags) = 1
                     /\ NewDiags[1].Level = DiagError
                ELSE /\ \A p \in Ptrs :
                            Symbols'[p].Precedence # Symbols[p].Precedence
                            => Symbols'[p].Precedence = N
                     /\ \A i \in 1..Len(terms) :
                            (/\ terms[i] # NilSym
                             /\ Symbols[terms[i]].Kind = SymTerminal
                             /\ Symbols[terms[i]].Precedence = 0)
                            => /\ Symbols'[terms[i]].Precedence = N
                               /\ Symbols'[terms[i]].Assoc = assoc]_vars

\* C5 witness: after a call with AssocNone (its error is recorded) and a
\* group that assigned nothing, the second group gave a terminal level 2;
\* no symbol has level 1.
C5_Witness ==
    /\ last.op = "DefinePrecedenceGroup"
    /\ hist.groups = 2
    /\ \E p \in Ptrs : Symbols[p].Precedence = 2
    /\ \A p \in Ptrs : Symbols[p].Precedence # 1
    /\ \E k \in 1..Len(diags) : diags[k].Msg[1] = NoAssocMsg

\* C6: a symbol's non-zero Precedence and its Assoc are never changed by any
\* operation; and a later precedence group (a DefinePrecedenceGroup call with
\* associativity Left, Right or Nonassoc) appends, for a terminal that
\* already had a level, one warning per listing of that terminal and no error
\* about it.
C6_AssignedPrecedenceIsFinal ==
    [][/\ \A p \in Ptrs :
              Symbols[p].Precedence # 0
              => /\ p \in 1..Len(Symbols')
                 /\ Symbols'[p].Precedence = Symbols[p].Precedence
                 /\ Symbols'[p].Assoc = Symbols[p].Assoc
       /\ (last'.op = "DefinePrecedenceGroup" /\ last'.args[1] # AssocNone)
          => \A p \in Ptrs :
                 Symbols[p].Precedence # 0
                 => LET terms == last'.args[2]
                        listings == Cardinality({i \in 1..Len(terms) : terms[i] = p})
                        About(d) == Len(d.Msg) >= 2 /\ d.Msg[2] = Symbols[p].Name
                    IN /\ Count(NewDiags, LAMBDA d : /\ About(d)
                                                     /\ d.Level = DiagWarn
                                                     /\ d.Msg[1] = HasPrecedenceMsg)
                          = listings
                       /\ Count(NewDiags, LAMBDA d : About(d)) = listings]_vars

\* C6 witness: the second group, of another associativity, listed a terminal
\* of level 1; the terminal kept level 1 and a warning was recorded.
C6_Witness ==
    /\ last.op = "DefinePrecedenceGroup"
    /\ hist.groups = 2
    /\ last.args[1] # AssocNone
    /\ \E i \in 1..Len(last.args[2]) :
           /\ last.args[2][i] # NilSym
           /\ Symbols[last.args[2][i]].Precedence = 1
           /\ Symbols[last.args[2][i]].Assoc # last.args[1]
    /\ \E k \in 1..Len(diags) :
           diags[k].Level = DiagWarn /\ diags[k].Msg[1] = HasPrecedenceMsg

\* C8 as stated: on a symbol whose TypeTag is non-empty, SetTypeTag with a
\* tag that is not empty or whitespace and differs from the stored tag
\* appends exactly one error, SetTypeTag with any other tag appends nothing,
\* and neither changes a symbol.
C8_RawTagCompared ==
    [][(/\ last'.op = "SetTypeTag"
        /\ last'.args[1] # NilSym
        /\ Symbols[last'.args[1]].TypeTag # <<>>)
       => LET sym == last'.args[1]
              rawTag == last'.args[2]
          IN /\ Symbols' = Symbols
             /\ AppendsOnly
             /\ IF TrimSpace(rawTag) # <<>> /\ rawTag # Symbols[sym].TypeTag
                THEN /\ Len(NewDiags) = 1
                     /\ NewDiags[1].Level = DiagError
                ELSE NewDiags = <<>>]_vars

\* C8: a non-empty TypeTag is never changed by any operation; on a symbol
\* whose TypeTag is non-empty, SetTypeTag with a tag that after trimming
\* surrounding whitespace is non-empty and differs from the stored tag
\* appends exactly one error, SetTypeTag with a tag that after trimming is
\* empty or equal to the stored tag appends nothing, and neither changes a
\* symbol.
C8_TypeTagFirstWins ==
    [][/\ \A p \in Ptrs :
              Symbols[p].TypeTag # <<>>
              => /\ p \in 1..Len(Symbols')
                 /\ Symbols'[p].TypeTag = Symbols[p].TypeTag
       /\ (/\ last'.op = "SetTypeTag"
           /\ last'.args[1] # NilSym
           /\ Symbols[last'.args[1]].TypeTag # <<>>)
          => LET sym == last'.args[1]
                 typeTag == TrimSpace(last'.args[2])
             IN /\ Symbols' = Symbols
                /\ AppendsOnly
                /\ IF typeTag # <<>> /\ typeTag # Symbols[sym].TypeTag
                   THEN /\ Len(NewDiags) = 1
                        /\ NewDiags[1].Level = DiagError
                   ELSE NewDiags = <<>>]_vars

\* C8 witness: the only symbol has tag "t"; SetTypeTag with "u" was refused
\* with the one error on record, and the last call, SetTypeTag with "t "
\* (which trims to the stored tag), recorded nothing.
C8_Witness ==
    /\ last.op = "SetTypeTag"
    /\ Len(Symbols) = 1
    /\ last.args = <<1, <<"t", " ">> >>
    /\ Symbols[1].TypeTag = <<"t">>
    /\ Len(diags) = 1
    /\ diags[1].Level = DiagError
    /\ diags[1].Msg = <<HasTypeMsg, Symbols[1].Name, <<"t">>, <<"u">> >>

\* The LHS of the first rule begun with a nonterminal LHS; nil if none.
FirstNonterminalLHS ==
    LET idx == {i \in 1..Len(Rules) : Symbols[Rules[i].LHS].Kind = SymNonterminal}
    IN IF idx = {} THEN NilSym
       ELSE Rules[CHOOSE i \in idx : \A j \in idx : i <= j].LHS

\* C7: when the builder is driven only by sink events, Start is the symbol
\* named by the last start_symbol directive that named a nonterminal, if
\* there was one, and otherwise the LHS of the first rule begun with a
\* nonterminal LHS (nil when there is none).
C7_StartSymbol ==
    hist.sinkOnly
    => Start = (IF hist.startDir # NilSym THEN hist.startDir ELSE FirstNonterminalLHS)

\* C7 witness: a start_symbol directive arrived after the first rule and
\* named another nonterminal, which is now the start symbol.
C7_Witness ==
    /\ hist.sinkOnly
    /\ last.op = "Directive"
    /\ last.args[1].Kind = DirStartSymbol
    /\ Len(Rules) >= 1
    /\ FirstNonterminalLHS # NilSym
    /\ Start # FirstNonterminalLHS
    /\ Start = hist.startDir

AcceptName == <<"$", "a", "c", "c", "e", "p", "t">>
UndefinedMsg == "nonterminal %q is used but has no rule"
UnreachableMsg == "nonterminal %q has rules but is unreachable from start symbol %q"

\* Some rule has N as its LHS.
IsLHS(N) == \E i \in 1..Len(Rules) : Rules[i].LHS = N
\* The number of occurrences of N in the RHS of alternative j of rule i.
Uses(N, i, j) ==
    Cardinality({k \in 1..Len(Rules[i].Alternatives[j].RHS) :
                     Rules[i].Alternatives[j].RHS[k] = N})
\* N occurs in the RHS of some alternative.
OccursInRHS(N) ==
    \E i \in 1..Len(Rules) : \E j \in 1..Len(Rules[i].Alternatives) : Uses(N, i, j) > 0
\* A has an alternative whose RHS contains nonterminal B.
Edge(A, B) ==
    /\ Symbols[B].Kind = SymNonterminal
    /\ \E i \in 1..Len(Rules) :
           /\ Rules[i].LHS = A
           /\ \E j \in 1..Len(Rules[i].Alternatives) : Uses(B, i, j) > 0
\* S closed under Edge, in at most n rounds.
RECURSIVE ClosureFrom(_, _)
ClosureFrom(S, n) ==
    IF n = 0 THEN S
    ELSE ClosureFrom(S \cup {B \in Ptrs : \E A \in S : Edge(A, B)}, n - 1)
\* The reflexive-transitive closure of the start symbol under Edge.
StartClosure == ClosureFrom({Start}, Len(Symbols))

\* C4: after Finalize on a grammar with no error on record, there is a
\* nonterminal $accept and the last rule of Rules is $accept -> S, S being
\* the start symbol.
C4_AugmentedRuleAppended ==
    (last.op = "Finalize" /\ ~HasErrors(World))
    => \E p \in Ptrs :
           /\ Symbols[p].Name = AcceptName
           /\ Symbols[p].Kind = SymNonterminal
           /\ Len(Rules) >= 1
           /\ Rules[Len(Rules)].LHS = p
           /\ Len(Rules[Len(Rules)].Alternatives) = 1
           /\ Rules[Len(Rules)].Alternatives[1].RHS = <<Start>>

\* C9: a Finalize call appends, for every symbol N, exactly one "used but
\* has no rule" diagnostic, an error, if N is a nonterminal that occurs in
\* the RHS of some alternative and is the LHS of no rule, and none otherwise;
\* it appends no other "used but has no rule" diagnostic.
C9_UndefinedNonterminals ==
    [][last'.op = "Finalize"
       => LET Undefined == {N \in Ptrs : /\ Symbols[N].Kind = SymNonterminal
                                         /\ OccursInRHS(N)
                                         /\ ~IsLHS(N)}
          IN /\ AppendsOnly
             /\ \A N \in Ptrs :
                    Count(NewDiags, LAMBDA d : /\ d.Level = DiagError
                                               /\ d.Msg = <<UndefinedMsg, Symbols[N].Name>>)
                    = (IF N \in Undefined THEN 1 ELSE 0)
             /\ Count(NewDiags, LAMBDA d : d.Msg[1] = UndefinedMsg)
                = Cardinality(Undefined)]_vars

\* C9 witness: Finalize ran on rules where a nonterminal with no rule occurs
\* twice in one RHS, and there is one "used but has no rule" error for it.
C9_Witness ==
    /\ last.op = "Finalize"
    /\ \E N \in Ptrs :
           /\ Symbols[N].Kind = SymNonterminal
           /\ ~IsLHS(N)
           /\ \E i \in 1..Len(Rules) : \E j \in 1..Len(Rules[i].Alternatives) :
                  Uses(N, i, j) >= 2
           /\ Count(diags, LAMBDA d : d.Msg = <<UndefinedMsg, Symbols[N].Name>>) = 1

\* C10: when the start symbol is a nonterminal, a Finalize call appends, for
\* every symbol N, exactly one "unreachable" diagnostic if N is the LHS of
\* some rule and is not in the reflexive-transitive closure of the start
\* symbol under Edge, and none otherwise; these diagnostics are warnings, and
\* a call that appends nothing else leaves HasErrors false if it was false.
C10_UnreachableSymbols ==
    [][(/\ last'.op = "Finalize"
        /\ Start # NilSym
        /\ Symbols[Start].Kind = SymNonterminal)
       => /\ AppendsOnly
          /\ \A N \in Ptrs :
                 Count(NewDiags, LAMBDA d : /\ d.Msg[1] = UnreachableMsg
                                            /\ d.Msg[2] = Symbols[N].Name)
                 = (IF IsLHS(N) /\ N \notin StartClosure THEN 1 ELSE 0)
          /\ \A k \in 1..Len(NewDiags) :
                 NewDiags[k].Msg[1] = UnreachableMsg => NewDiags[k].Level = DiagWarn
          /\ (/\ ~HasErrors(World)
              /\ \A k \in 1..Len(NewDiags) : NewDiags[k].Msg[1] = UnreachableMsg)
             => ~HasErrors(World)']_vars

\* C10 witness: Finalize ran with a nonterminal start symbol that reaches
\* another nonterminal; a symbol with a rule outside the closure got its
\* warning, and there is no error.
C10_Witness ==
    /\ last.op = "Finalize"
    /\ Start # NilSym
    /\ Cardinality(StartClosure) >= 2
    /\ ~HasErrors(World)
    /\ \E N \in Ptrs :
           /\ IsLHS(N)
           /\ N \notin StartClosure
           /\ \E k \in 1..Len(diags) :
                  /\ diags[k].Level = DiagWarn
                  /\ diags[k].Msg[1] = UnreachableMsg
                  /\ diags[k].Msg[2] = Symbols[N].Name

NoAlternativesMsg == "rule %q has no alternatives"
UnusedTerminalMsg == "terminal %q is declared but never used"
UnreferencedMsg == "nonterminal %q has rules but is never referenced (except as LHS)"
UnusedNonterminalMsg == "nonterminal %q is declared but never used and has no rules"
\* The formats of the warnings the builder and Finalize record about a
\* named symbol or rule.
WarnFormats ==
    {NoAlternativesMsg, UnusedTerminalMsg, UnreferencedMsg, UnusedNonterminalMsg,
     UnreachableMsg, HasPrecedenceMsg, "start symbol changed from %q to %q",
     "precedence override uses %q, but it has no precedence (missing %%left/%%right/%%nonassoc?)"}

\* P closed, in at most n rounds, under: a symbol is productive when some
\* alternative of one of its rules has an RHS of productive symbols only.
RECURSIVE ProductiveFrom(_, _)
ProductiveFrom(P, n) ==
    IF n = 0 THEN P
    ELSE ProductiveFrom(
             P \cup {N \in Ptrs :
                       \E i \in 1..Len(Rules) :
                           /\ Rules[i].LHS = N
                           /\ \E j \in 1..Len(Rules[i].Alternatives) :
                                  \A k \in 1..Len(Rules[i].Alternatives[j].RHS) :
                                      Rules[i].Alternatives[j].RHS[k] \in P},
             n - 1)
\* The productive symbols: the fixed point that starts from the terminals.
Productive == ProductiveFrom({p \in Ptrs : Symbols[p].Kind = SymTerminal}, Len(Symbols))

\* C11: after Finalize on a grammar with rules, every nonterminal that is not
\* productive has a warning of its own on record: a warning naming it that
\* is not one of the warnings of the other checks.
C11_UnproductiveWarned ==
    (last.op = "Finalize" /\ Len(Rules) > 0)
    => \A N \in Ptrs :
           (Symbols[N].Kind = SymNonterminal /\ N \notin Productive)
           => \E k \in 1..Len(diags) :
                  /\ diags[k].Level = DiagWarn
                  /\ Len(diags[k].Msg) >= 2
                  /\ diags[k].Msg[2] = Symbols[N].Name
                  /\ diags[k].Msg[1] \notin WarnFormats

\* Some alternative has N as its precedence override.
IsPrecOverride(N) ==
    \E i \in 1..Len(Rules) : \E j \in 1..Len(Rules[i].Alternatives) :
        Rules[i].Alternatives[j].PrecSym = N

\* C12: a Finalize call on a grammar with at least one rule appends, for
\* every symbol N, exactly one never-used / never-referenced warning if N is
\* not <invalid> and occurs in no RHS and in no precedence override (the
\* start symbol included), and none otherwise.
C12_UnusedSymbols ==
    [][(last'.op = "Finalize" /\ Len(Rules) > 0)
       => /\ AppendsOnly
          /\ \A N \in Ptrs :
                 Count(NewDiags,
                       LAMBDA d : /\ d.Msg[1] \in {UnusedTerminalMsg, UnreferencedMsg,
                                                   UnusedNonterminalMsg}
                                  /\ d.Msg[2] = Symbols[N].Name)
                 = (IF /\ Symbols[N].Name # InvalidName
                       /\ ~OccursInRHS(N)
                       /\ ~IsPrecOverride(N)
                    THEN 1 ELSE 0)
          /\ \A k \in 1..Len(NewDiags) :
                 NewDiags[k].Msg[1] \in {UnusedTerminalMsg, UnreferencedMsg,
                                         UnusedNonterminalMsg}
                 => NewDiags[k].Level = DiagWarn]_vars

\* C12 witness: Finalize ran on a grammar with a rule; <invalid> is in no
\* RHS and has no such warning, and another symbol that is in no RHS and is
\* no precedence override has its warning.
C12_Witness ==
    /\ last.op = "Finalize"
    /\ Len(Rules) > 0
    /\ \E N \in Ptrs :
           /\ Symbols[N].Name = InvalidName
           /\ ~OccursInRHS(N)
           /\ \A k \in 1..Len(diags) :
                  (Len(diags[k].Msg) >= 2 /\ diags[k].Msg[2] = InvalidName)
                  => diags[k].Msg[1] \notin {UnusedTerminalMsg, UnreferencedMsg,
                                             UnusedNonterminalMsg}
    /\ \E N \in Ptrs :
           /\ Symbols[N].Name # InvalidName
           /\ ~OccursInRHS(N)
           /\ ~IsPrecOverride(N)
           /\ \E k \in 1..Len(diags) :
                  /\ diags[k].Msg[1] \in {UnusedTerminalMsg, UnreferencedMsg,
                                          UnusedNonterminalMsg}
                  /\ diags[k].Msg[2] = Symbols[N].Name

\* C13: once Finalize has returned, no operation changes the grammar's
\* symbols (or their attributes), rules, start symbol or directives.
C13_FrozenAfterFinalize ==
    [][hist.finalized
       => /\ Symbols' = Symbols
          /\ SymbolsByName' = SymbolsByName
          /\ Rules' = Rules
          /\ Start' = Start
          /\ Directives' = Directives]_vars

\* The kind the stated priority gives a reference to name in this state.
PriorityKind(name) ==
    IF name \in declTokens THEN SymTerminal
    ELSE IF \E q \in Ptrs : Symbols[q].Name = name
    THEN Symbols[CHOOSE q \in Ptrs : Symbols[q].Name = name].Kind
    ELSE IF \/ \E i \in 1..Len(name) : ~IsLetter(name[i])
            \/ \A i \in 1..Len(name) : name[i] \in UpperLetters
    THEN SymTerminal
    ELSE SymNonterminal

\* C14: when the sink resolves the first RHS reference of an alternative
\* (a rule being open and the name not blank), the symbol it puts in the
\* alternative has that name and its kind is: terminal if the name was
\* declared by a token-style directive; otherwise the existing kind of a
\* name already interned; otherwise terminal for a name that contains a
\* non-letter or consists only of uppercase letters; otherwise nonterminal.
C14_ResolutionPriority ==
    [][(/\ last'.op = "Alternative"
        /\ curRule # NilRule
        /\ curLHS # NilSym
        /\ ~rbDone[curRule]
        /\ Len(last'.args[1].RHS) >= 1
        /\ TrimSpace(last'.args[1].RHS[1].Name) # <<>>)
       => LET name == TrimSpace(last'.args[1].RHS[1].Name)
              alts == Rules'[curRule].Alternatives
              p == alts[Len(alts)].RHS[1]
          IN /\ Len(alts) = Len(Rules[curRule].Alternatives) + 1
             /\ Symbols'[p].Name = name
             /\ Symbols'[p].Kind = PriorityKind(name)]_vars

\* C15: Finalize is deterministic: in every state, the diagnostics after
\* Finalize are the same whatever order the runtime iterates its maps in.
C15_FinalizeDeterministic ==
    \A o1, o2 \in Orders : Finalize(World, o1).diags = Finalize(World, o2).diags

\* C16: after Finalize on a grammar that contains a rule with no
\* alternative, an error-level diagnostic about that rule is on record and
\* HasErrors is true.
C16_NoAlternativesIsError ==
    (last.op = "Finalize")
    => \A i \in 1..Len(Rules) :
           Len(Rules[i].Alternatives) = 0
           => /\ HasErrors(World)
              /\ \E k \in 1..Len(diags) :
                     /\ diags[k].Level = DiagError
                     /\ Len(diags[k].Msg) >= 2
                     /\ diags[k].Msg[2] = Symbols[Rules[i].LHS].Name

\* C17: every step only appends to the diagnostics (none is removed,
\* reordered or rewritten), HasErrors is true exactly when an error-level
\* diagnostic is on record, and once true it stays true.
C17_DiagnosticsAppendOnly ==
    [][/\ AppendsOnly
       /\ HasErrors(World)' = (\E k \in 1..Len(diags') : diags'[k].Level = DiagError)
       /\ HasErrors(World) => HasErrors(World)']_vars

\* C17 witness: an error was recorded and warnings after it; HasErrors is
\* true.
C17_Witness ==
    /\ Len(diags) >= 2
    /\ diags[1].Level = DiagError
    /\ diags[Len(diags)].Level = DiagWarn
    /\ HasErrors(World)

\* C18: every diagnostic on record has a span (every call and event of the
\* specification is given one).
C18_EveryDiagnosticHasSpan ==
    \A k \in 1..Len(diags) : diags[k].At # NilSpan

----------------------------------------------------------------------------
(* The scanner (internal/scanner) and the lexer (internal/lex).            *)
(*                                                                         *)
(* The source buffer is the sequence of the characters that successive     *)
(* calls of utf8.DecodeRune find in the byte slice; positions in it are    *)
(* byte offsets.  Four characters have names: "BOM" is U+FEFF and "U+65E5" *)
(* is that code point, both three bytes wide ("U+0085" and "U+00A0" are   *)
(* two bytes wide, "U+000B" is one); "NUL" is the byte 0 and               *)
(* "BAD" is a byte that is no UTF-8 encoding (it decodes to RuneError with *)
(* width 1).  A rune is a character or "EOF"; "none" is the value -2 that  *)
(* Init gives Scanner.ch.  The tokens Scan returns are the names of the    *)
(* scanner's constants, or the character itself.  Every operator on the    *)
(* scanner maps the scanner record to the scanner record after the call;   *)
(* the field r is the rune the call returned.                              *)

\* unicode.IsDigit over the characters the model uses.
IsDigit(c) == c \in {"0", "1", "2", "3", "4", "5", "6", "7", "8", "9"}

\* Scanner.Init on a bytes.Reader over src, the receiver being &Scanner{}.
ScannerInit(src) ==
    [srcBuf |-> src, srcPos |-> 0, line |-> 1, column |-> 0,
     lastLineLen |-> 0, lastCharLen |-> 0, tokPos |-> -1, tokEnd |-> 0,
     ch |-> "none", ErrorCount |-> 0,
     Filename |-> "", Offset |-> 0, Line |-> 0, Column |-> 0, r |-> "none"]

\* The width utf8.DecodeRune returns for a character: the number of bytes
\* of its encoding, 1 for an illegal byte.
Width(c) ==
    IF c \in {"BOM", "U+65E5"} THEN 3
    ELSE IF c \in {"U+0085", "U+00A0"} THEN 2
    ELSE 1

\* len of the byte slice that holds the characters of src.
ByteLen(src) ==
    LET RECURSIVE sum(_)
        sum(i) == IF i = 0 THEN 0 ELSE sum(i - 1) + Width(src[i])
    IN  sum(Len(src))

\* The number of characters of src that lie before byte offset off, which
\* is the offset of a character or the length of the slice.
CharsBefore(src, off) ==
    LET RECURSIVE walk(_, _)
        walk(i, bytes) ==
            IF bytes >= off THEN i ELSE walk(i + 1, bytes + Width(src[i + 1]))
    IN  walk(0, 0)

\* Scanner.error: the message goes to ErrorLog, which nothing reads.
scannerError(s) == [s EXCEPT !.ErrorCount = @ + 1]

\* next with a fault: a newline does not start a new column count.
nextKeepsColumn(s) ==
    IF ~(s.srcPos < ByteLen(s.srcBuf))
    THEN [s EXCEPT !.lastCharLen = 0, !.r = "EOF"]
    ELSE LET ch == s.srcBuf[CharsBefore(s.srcBuf, s.srcPos) + 1]
             t == [s EXCEPT !.srcPos = @ + Width(ch), !.lastCharLen = Width(ch),
                            !.column = @ + 1, !.r = ch]
         IN  IF ch = "BAD" THEN scannerError(t)
             ELSE IF ch = "NUL" THEN scannerError(t)
             ELSE IF ch = "\n"
                  THEN [t EXCEPT !.line = @ + 1, !.lastLineLen = t.column]
                  ELSE t

\* Scanner.next
next(s) ==
    IF ~(s.srcPos < ByteLen(s.srcBuf))
    THEN [s EXCEPT !.lastCharLen = 0, !.r = "EOF"]
    ELSE LET ch == s.srcBuf[CharsBefore(s.srcBuf, s.srcPos) + 1]
             t == [s EXCEPT !.srcPos = @ + Width(ch), !.lastCharLen = Width(ch),
                            !.column = @ + 1, !.r = ch]
         IN  IF ch = "BAD" THEN scannerError(t)
             ELSE IF ch = "NUL" THEN scannerError(t)
             ELSE IF ch = "\n"
                  THEN [t EXCEPT !.line = @ + 1, !.lastLineLen = t.column,
                                 !.column = 0]
                  ELSE t

\* Scanner.Peek
Peek(s) ==
    IF s.ch = "none"
    THEN LET t == next(s)
             u == IF t.r = "BOM" THEN next(t) ELSE t
         IN  [u EXCEPT !.ch = u.r]
    ELSE [s EXCEPT !.r = s.ch]

\* isIdentRune with a fault: a digit is never part of an identifier.
isIdentRuneNoDigit(ch, i) == ch = "_" \/ IsLetter(ch)

\* Scanner.isIdentRune with IsIdentRune unset.
isIdentRune(ch, i) == ch = "_" \/ IsLetter(ch) \/ (IsDigit(ch) /\ i > 0)

\* scanAction with a fault: the block ends at the first closing brace.
scanActionFirstBrace(s) ==
    LET RECURSIVE loop(_, _)
        loop(t, level) ==
            IF level > 0 /\ t.r # "EOF"
            THEN loop(next(t), IF t.r = "}" THEN 0 ELSE level)
            ELSE IF level # 0 THEN scannerError(t) ELSE t
    IN  loop(next(s), 1)

\* Scanner.scanAction; in the loop t.r is the local ch.
scanAction(s) ==
    LET RECURSIVE loop(_, _)
        loop(t, level) ==
            IF level > 0 /\ t.r # "EOF"
            THEN loop(next(t), IF t.r = "{" THEN level + 1
                               ELSE IF t.r = "}" THEN level - 1 ELSE level)
            ELSE IF level # 0 THEN scannerError(t) ELSE t
    IN  loop(next(s), 1)

\* The loop of scanIdentifier and of scanDirective, which are the same code.
RECURSIVE identLoop(_, _)
identLoop(s, i) == IF isIdentRune(s.r, i) THEN identLoop(next(s), i + 1) ELSE s

scanDirective(s) == identLoop(next(s), 1)

scanIdentifier(s) == identLoop(next(s), 1)

\* Scanner.scanString
scanString(s, quote) ==
    LET RECURSIVE loop(_)
        loop(t) ==
            IF t.r = quote THEN t
            ELSE IF t.r = "\n" \/ t.r = "EOF" THEN scannerError(t)
            ELSE IF t.r = "\\"
                 THEN LET u == next(t)
                      IN  IF u.r = "EOF" THEN scannerError(u)
                          ELSE loop(next(u))
                 ELSE loop(next(t))
    IN  loop(next(s))

\* scanComment with a fault: a line comment is scanned like a block comment.
scanCommentBlockOnly(s, ch) ==
    LET RECURSIVE block(_)
        block(t) ==
            IF t.r = "EOF" THEN scannerError(t)
            ELSE LET u == next(t)
                 IN  IF t.r = "*" /\ u.r = "/" THEN next(u) ELSE block(u)
    IN  block(next(s))

\* Scanner.scanComment: to the end of the line, or to the closing "*/".
scanComment(s, ch) ==
    LET RECURSIVE line(_)
        line(t) == IF t.r # "\n" /\ t.r # "EOF" THEN line(next(t)) ELSE t
        RECURSIVE block(_)
        block(t) ==
            IF t.r = "EOF" THEN scannerError(t)
            ELSE LET u == next(t)
                 IN  IF t.r = "*" /\ u.r = "/" THEN next(u) ELSE block(u)
    IN  IF ch = "/" THEN line(next(s)) ELSE block(next(s))

\* Scanner.TokenText; tokBuf is always empty.
TokenText(s) ==
    IF s.tokPos < 0 THEN <<>>
    ELSE SubSeq(s.srcBuf, CharsBefore(s.srcBuf, s.tokPos) + 1,
                CharsBefore(s.srcBuf, IF s.tokEnd < 0 THEN s.tokPos ELSE s.tokEnd))

\* The keyword switch of Scan's '%' case.
directiveToken(text) ==
    LET name == SubSeq(text, 2, Len(text))
    IN  CASE name = <<"c", "o", "d", "e">> -> "Code"
          [] name = <<"d", "e", "f", "a", "u", "l", "t", "_", "d", "e", "s",
                      "t", "r", "u", "c", "t", "o", "r">> -> "DefaultDestructor"
          [] name = <<"d", "e", "f", "a", "u", "l", "t", "_", "t", "y", "p",
                      "e">> -> "DefaultType"
          [] name = <<"d", "e", "s", "t", "r", "u", "c", "t", "o", "r">>
                -> "Destructor"
          [] name = <<"e", "n", "d", "i", "f">> -> "EndIf"
          [] name = <<"e", "x", "t", "r", "a", "_", "a", "r", "g", "u", "m",
                      "e", "n", "t">> -> "ExtraArgument"
          [] name = <<"e", "x", "t", "r", "a", "_", "c", "o", "n", "t", "e",
                      "x", "t">> -> "ExtraContext"
          [] name = <<"f", "a", "l", "l", "b", "a", "c", "k">> -> "Fallback"
          [] name = <<"i", "f", "d", "e", "f">> -> "IfDef"
          [] name = <<"i", "f", "n", "d", "e", "f">> -> "IfNDdef"
          [] name = <<"i", "n", "c", "l", "u", "d", "e">> -> "Include"
          [] name = <<"l", "e", "f", "t">> -> "Left"
          [] name = <<"n", "a", "m", "e">> -> "Name"
          [] name = <<"n", "o", "n", "a", "s", "s", "o", "c">> -> "NonAssoc"
          [] name = <<"p", "a", "r", "s", "e", "_", "a", "c", "c", "e", "p",
                      "t">> -> "ParseAccept"
          [] name = <<"p", "a", "r", "s", "e", "_", "f", "a", "i", "l", "u",
                      "r", "e">> -> "ParseFailure"
          [] name = <<"r", "i", "g", "h", "t">> -> "Right"
          [] name = <<"s", "t", "a", "c", "k", "_", "o", "v", "e", "r", "f",
                      "l", "o", "w">> -> "StackOverflow"
          [] name = <<"s", "t", "a", "c", "k", "_", "s", "i", "z", "e">>
                -> "StackSize"
          [] name = <<"s", "t", "a", "r", "t", "_", "s", "y", "m", "b", "o",
                      "l">> -> "StartSymbol"
          [] name = <<"s", "y", "n", "t", "a", "x", "_", "e", "r", "r", "o",
                      "r">> -> "SyntaxError"
          [] name = <<"t", "o", "k", "e", "n", "_", "c", "l", "a", "s", "s">>
                -> "TokenClass"
          [] name = <<"t", "o", "k", "e", "n", "_", "d", "e", "s", "t", "r",
                      "u", "c", "t", "o", "r">> -> "TokenDestructor"
          [] name = <<"t", "o", "k", "e", "n", "_", "p", "r", "e", "f", "i",
                      "x">> -> "TokenPrefix"
          [] name = <<"t", "o", "k", "e", "n", "_", "t", "y", "p", "e">>
                -> "TokenType"
          [] name = <<"t", "y", "p", "e">> -> "Type"
          [] name = <<"w", "i", "l", "d", "c", "a", "r", "d">> -> "Wildcard"
          [] OTHER -> "Directive"

\* Scan from the label redo on; s.r is the local ch.
RECURSIVE scanRedo(_)
scanRedo(s) ==
    LET RECURSIVE skip(_)
        skip(t) == IF t.r \in {"\t", "\n", "\r", " "} THEN skip(next(t)) ELSE t
        w  == skip(s)
        ch == w.r
        a  == [w EXCEPT !.tokPos = w.srcPos - w.lastCharLen,
                        !.Offset = w.srcPos - w.lastCharLen,
                        !.Line = IF w.column > 0 THEN w.line ELSE w.line - 1,
                        !.Column = IF w.column > 0 THEN w.column
                                   ELSE w.lastLineLen]
        fin(t, tok) == [t EXCEPT !.tokEnd = t.srcPos - t.lastCharLen,
                                 !.ch = t.r, !.r = tok]
    IN  CASE isIdentRune(ch, 0) ->
                fin(scanIdentifier(a),
                    IF ch \in UpperLetters THEN "Terminal"
                    ELSE IF ch \in LowerLetters THEN "NonTerminal"
                    ELSE "Ident")
          [] ch = "EOF" -> fin(a, "EOF")
          [] ch = "\"" -> fin(next(scanString(a, "\"")), "String")
          [] ch = "/" ->
                LET t == next(a)
                IN  IF t.r = "/" \/ t.r = "*"
                    THEN scanRedo(scanComment([t EXCEPT !.tokPos = -1], t.r))
                    ELSE fin(t, "/")
          [] ch = ":" ->
                LET t == next(a)
                IN  IF t.r = ":"
                    THEN LET u == next(t)
                         IN  IF u.r = "=" THEN fin(next(u), "Is")
                             ELSE fin(scannerError(u), ":")
                    ELSE fin(t, ":")
          [] ch = "{" -> fin(scanAction(a), "Action")
          [] ch = "%" ->
                LET t == scanDirective(a)
                    e == [t EXCEPT !.tokEnd = t.srcPos - t.lastCharLen]
                IN  fin(e, directiveToken(TokenText(e)))
          [] OTHER -> fin(next(a), ch)

\* Scanner.Scan
Scan(s) == scanRedo([Peek(s) EXCEPT !.tokPos = -1, !.Line = 0])

\* The switch of Tokenize: the TokenType of what Scan returned.
tokenType(ch) ==
    CASE ch = "." -> "TOKEN_DOT"
      [] ch = "(" -> "TOKEN_LPAREN"
      [] ch = ")" -> "TOKEN_RPAREN"
      [] ch = "[" -> "TOKEN_LBRACKET"
      [] ch = "]" -> "TOKEN_RBRACKET"
      [] ch = "," -> "TOKEN_COMMA"
      [] ch = "|" -> "TOKEN_PIPE"
      [] ch = "Action" -> "TOKEN_CODE_BLOCK"
      [] ch = "Code" -> "TOKEN_DIR_CODE"
      [] ch = "DefaultDestructor" -> "TOKEN_DIR_DEFAULT_DESTRUCTOR"
      [] ch = "DefaultType" -> "TOKEN_DIR_DEFAULT_TYPE"
      [] ch = "Destructor" -> "TOKEN_DIR_DESTRUCTOR"
      [] ch = "EndIf" -> "TOKEN_DIR_ENDIF"
      [] ch = "ExtraArgument" -> "TOKEN_DIR_EXTRA_ARGUMENT"
      [] ch = "ExtraContext" -> "TOKEN_DIR_EXTRA_CONTEXT"
      [] ch = "Fallback" -> "TOKEN_DIR_FALLBACK"
      [] ch = "IfDef" -> "TOKEN_DIR_IFDEF"
      [] ch = "IfNDdef" -> "TOKEN_DIR_IFNDEF"
      [] ch = "Include" -> "TOKEN_DIR_INCLUDE"
      [] ch = "Is" -> "TOKEN_COLONCOLON_EQ"
      [] ch = "Left" -> "TOKEN_DIR_LEFT"
      [] ch = "Name" -> "TOKEN_DIR_NAME"
      [] ch = "NonAssoc" -> "TOKEN_DIR_NONASSOC"
      [] ch = "NonTerminal" -> "TOKEN_NONTERMINAL"
      [] ch = "ParseAccept" -> "TOKEN_DIR_PARSE_ACCEPT"
      [] ch = "ParseFailure" -> "TOKEN_DIR_PARSE_FAILURE"
      [] ch = "Right" -> "TOKEN_DIR_RIGHT"
      [] ch = "StackSize" -> "TOKEN_DIR_STACK_SIZE"
      [] ch = "StackOverflow" -> "TOKEN_DIR_STACK_OVERFLOW"
      [] ch = "StartSymbol" -> "TOKEN_DIR_START_SYMBOL"
      [] ch = "String" -> "TOKEN_STRING"
      [] ch = "SyntaxError" -> "TOKEN_DIR_SYNTAX_ERROR"
      [] ch = "Terminal" -> "TOKEN_TERMINAL"
      [] ch = "TokenClass" -> "TOKEN_DIR_TOKEN_CLASS"
      [] ch = "TokenDestructor" -> "TOKEN_DIR_TOKEN_DESTRUCTOR"
      [] ch = "TokenPrefix" -> "TOKEN_DIR_TOKEN_PREFIX"
      [] ch = "TokenType" -> "TOKEN_DIR_TOKEN_TYPE"
      [] ch = "Type" -> "TOKEN_DIR_TYPE"
      [] ch = "Wildcard" -> "TOKEN_DIR_WILDCARD"
      [] ch = "Directive" -> "TOKEN_DIR_GENERIC"
      [] OTHER -> "TOKEN_ERROR"

\* The token loop of Tokenize with a fault: no TOKEN_EOF is appended.
RECURSIVE TokenizeLoopNoEOF(_, _)
TokenizeLoopNoEOF(s, tokens) ==
    LET pos == [File |-> s.Filename, Line |-> s.Line, Column |-> s.Column]
    IN  IF s.r # "EOF"
        THEN TokenizeLoopNoEOF(Scan(s),
                 Append(tokens, [Type |-> tokenType(s.r),
                                 Literal |-> TokenText(s), Pos |-> pos]))
        ELSE tokens

\* The token loop of Tokenize with a fault: an iteration that follows the
\* first token appends it again before the scanner moves on.
RECURSIVE TokenizeLoopRepeats(_, _)
TokenizeLoopRepeats(s, tokens) ==
    LET pos == [File |-> s.Filename, Line |-> s.Line, Column |-> s.Column]
        tok == [Type |-> tokenType(s.r), Literal |-> TokenText(s), Pos |-> pos]
    IN  IF s.r # "EOF"
        THEN TokenizeLoopRepeats(Scan(s),
                 IF tokens = <<>> THEN <<tok, tok>> ELSE Append(tokens, tok))
        ELSE Append(tokens, [Type |-> "TOKEN_EOF", Literal |-> <<>>,
                             Pos |-> pos])

\* The token loop of Tokenize and the TOKEN_EOF appended after it; s is the
\* scanner after the last Scan and s.r is what that Scan returned.
RECURSIVE TokenizeLoop(_, _)
TokenizeLoop(s, tokens) ==
    LET pos == [File |-> s.Filename, Line |-> s.Line, Column |-> s.Column]
    IN  IF s.r # "EOF"
        THEN TokenizeLoop(Scan(s),
                 Append(tokens, [Type |-> tokenType(s.r),
                                 Literal |-> TokenText(s), Pos |-> pos]))
        ELSE Append(tokens, [Type |-> "TOKEN_EOF", Literal |-> <<>>,
                             Pos |-> pos])

\* lex.Tokenize.  Init reads a bytes.Reader, which does not fail, and the
\* loop ends only when Scan returns EOF, so err is nil.
Tokenize(filename, src) ==
    [tokens |-> TokenizeLoop(Scan(ScannerInit(src)), <<>>), err |-> "nil"]

----------------------------------------------------------------------------
(* LexSpec: Tokenize applied to a file name and a source text.  The source *)
(* is a concatenation of at most MaxPieces pieces of grammar text.         *)

MaxPieces == 3

LexFilenames == {"", "test.y"}

LexPieces ==
    { <<"a">>, <<"A">>, <<"_">>, <<"1">>, <<" ">>, <<"\n">>, <<".">>,
      <<":">>, <<":", ":", "=">>, <<"%", "l", "e", "f", "t">>,
      <<"{">>, <<"}">>, <<"\"">>, <<"/">>, <<"*">>,
      <<"BAD">>, <<"NUL">>, <<"BOM">>,
      <<"{", "\n", "}">>, <<"/", "*", "\n">>, <<"*", "/">>, <<"/", "/">>,
      <<"{", "\"", "}", "\"", "}">> }

LexSources ==
    LET RECURSIVE Flatten(_)
        Flatten(ps) == IF ps = <<>> THEN <<>> ELSE Head(ps) \o Flatten(Tail(ps))
    IN  {Flatten(ps) : ps \in SeqsUpTo(LexPieces, MaxPieces)}

LexInit ==
    \E filename \in LexFilenames, src \in LexSources :
        /\ Load(NewBuilder)
        /\ last = [op |-> "source", args |-> <<filename, src>>]
        /\ hist = HistInit

LexTokenize ==
    /\ last.op = "source"
    /\ ret' = Tokenize(last.args[1], last.args[2])
    /\ last' = [op |-> "Tokenize", args |-> last.args]
    /\ UNCHANGED <<Symbols, SymbolsByName, Rules, Start, Directives,
                   precedenceCounter, diags, rbDone, curRule, curLHS,
                   declTokens, declTypes, UseHeuristicCapsAsTerminal, hist>>

LexNext == LexTokenize

LexSpec == LexInit /\ [][LexNext]_vars

\* C19: the token slice Tokenize returns holds exactly one TOKEN_EOF token,
\* which is its last element, and for the empty source it is the only token.
C19_SingleTrailingEOF ==
    last.op = "Tokenize" =>
        LET tokens == ret.tokens
        IN  /\ ret.err = "nil"
            /\ Len(tokens) >= 1
            /\ tokens[Len(tokens)].Type = "TOKEN_EOF"
            /\ \A k \in 1..(Len(tokens) - 1) : tokens[k].Type # "TOKEN_EOF"
            /\ (last.args[2] = <<>> => Len(tokens) = 1)

\* Tokenize returned an error token and a terminal before the final TOKEN_EOF.
C19_Witness ==
    /\ last.op = "Tokenize"
    /\ Len(ret.tokens) = 3
    /\ ret.tokens[1].Type = "TOKEN_ERROR"
    /\ ret.tokens[2].Type = "TOKEN_TERMINAL"
    /\ ret.tokens[3].Type = "TOKEN_EOF"

\* C20: every token Tokenize returns, the final TOKEN_EOF included, has
\* Pos.File equal to the filename argument.
C20_TokenFileIsFilename ==
    last.op = "Tokenize" =>
        \A k \in 1..Len(ret.tokens) : ret.tokens[k].Pos.File = last.args[1]

----------------------------------------------------------------------------
(* Properties of the lexer.                                                *)

\* The number of opening braces minus the number of closing braces in s.
RECURSIVE Depth(_)
Depth(s) ==
    IF s = <<>> THEN 0
    ELSE Depth(Tail(s)) + (IF Head(s) = "{" THEN 1
                           ELSE IF Head(s) = "}" THEN -1 ELSE 0)

\* The positions of the braces that match an opening brace at position i of
\* src by nesting depth (at most one).
MatchingBrace(src, i) ==
    {m \in (i + 1)..Len(src) :
        /\ Depth(SubSeq(src, i, m)) = 0
        /\ \A j \in i..(m - 1) : Depth(SubSeq(src, i, j)) > 0}

\* C21: for a source that starts with a brace whose matching brace (by
\* nesting depth) exists, the first token is a TOKEN_CODE_BLOCK whose literal
\* runs from the brace through the matching one, and the scanner's next
\* character is the one after the matching brace.
C21_CodeBlockIsOneToken ==
    (last.op = "Tokenize" /\ last.args[2] # <<>> /\ last.args[2][1] = "{") =>
        LET src == last.args[2]
            s   == Scan(ScannerInit(src))
        IN  \A m \in MatchingBrace(src, 1) :
                /\ ret.tokens[1].Type = "TOKEN_CODE_BLOCK"
                /\ ret.tokens[1].Literal = SubSeq(src, 1, m)
                /\ s.r = "Action"
                /\ s.srcPos - s.lastCharLen = ByteLen(SubSeq(src, 1, m))
                /\ s.ch = (IF m < Len(src) THEN src[m + 1] ELSE "EOF")
                /\ (m < Len(src) /\ src[m + 1] = ".") =>
                        /\ ret.tokens[2].Type = "TOKEN_DOT"
                        /\ ret.tokens[2].Literal = <<".">>

\* Tokenize returned a code block that holds a nested block.
C21_Witness ==
    /\ last.op = "Tokenize"
    /\ last.args[2] = <<"{", "{", "\n", "}", "}">>
    /\ Len(ret.tokens) = 2
    /\ ret.tokens[1].Type = "TOKEN_CODE_BLOCK"
    /\ ret.tokens[1].Literal = <<"{", "{", "\n", "}", "}">>
    /\ ret.tokens[2].Type = "TOKEN_EOF"

\* The types and literals of a token sequence.
TypesAndLiterals(tokens) ==
    [k \in DOMAIN tokens |-> <<tokens[k].Type, tokens[k].Literal>>]

\* src from position i on, with every line comment (from "//" to the end of
\* the line) and every block comment (from "/*" through the next "*/")
\* replaced by spaces, in a text that has no string and no code block.  A
\* "/*" with no closing "*/" is no comment: the text is kept from there on.
RECURSIVE BlankComments(_, _)
BlankComments(src, i) ==
    LET n == Len(src)
        Spaces(k) == [j \in 1..k |-> " "]
        two == IF i < n THEN <<src[i], src[i + 1]>> ELSE <<>>
        eol == {j \in (i + 2)..n : src[j] = "\n"}
        close == {j \in (i + 2)..(n - 1) : src[j] = "*" /\ src[j + 1] = "/"}
        Min(S) == CHOOSE x \in S : \A y \in S : x <= y
    IN  IF i > n THEN <<>>
        ELSE IF two = <<"/", "/">>
             THEN LET e == IF eol = {} THEN n + 1 ELSE Min(eol)
                  IN  Spaces(e - i) \o BlankComments(src, e)
        ELSE IF two = <<"/", "*">>
             THEN IF close = {} THEN SubSeq(src, i, n)
                  ELSE Spaces(Min(close) + 2 - i)
                       \o BlankComments(src, Min(close) + 2)
        ELSE <<src[i]>> \o BlankComments(src, i + 1)

\* C22: for a source without strings and code blocks, Tokenize returns the
\* same token types and literals as for the source with every comment
\* replaced by whitespace, so a comment yields no token.
C22_CommentsAreDiscarded ==
    (last.op = "Tokenize"
        /\ \A k \in 1..Len(last.args[2]) : last.args[2][k] \notin {"{", "\""})
    => TypesAndLiterals(ret.tokens)
         = TypesAndLiterals(
               Tokenize(last.args[1], BlankComments(last.args[2], 1)).tokens)

\* Tokenize was given a block comment with text in it and returned only the
\* final TOKEN_EOF.
C22_Witness ==
    /\ last.op = "Tokenize"
    /\ last.args[2] = <<"/", "*", "\n", "a", "*", "/">>
    /\ BlankComments(last.args[2], 1) = <<" ", " ", " ", " ", " ", " ">>
    /\ Len(ret.tokens) = 1

\* The number of leading whitespace characters of src.
RECURSIVE LeadingSpace(_)
LeadingSpace(src) ==
    IF src # <<>> /\ Head(src) \in {" ", "\t", "\r", "\n"}
    THEN 1 + LeadingSpace(Tail(src)) ELSE 0

\* The last position of the maximal run of letters, digits and underscores
\* of src that starts at position i.
RunEnd(src, i) ==
    LET IdentChar(c) == IsLetter(c) \/ IsDigit(c) \/ c = "_"
    IN  CHOOSE m \in i..Len(src) :
            /\ \A j \in i..m : IdentChar(src[j])
            /\ (m < Len(src) => ~IdentChar(src[m + 1]))

\* C23: when the first token of the source is an identifier that starts with
\* an uppercase letter it is a TOKEN_TERMINAL, when it starts with a
\* lowercase letter it is a TOKEN_NONTERMINAL, whatever the later characters
\* are, and its literal is the whole maximal run of letters, digits and
\* underscores.
C23_IdentifierClassification ==
    LET src == last.args[2]
        i   == LeadingSpace(src) + 1
    IN  (last.op = "Tokenize" /\ i <= Len(src) /\ IsLetter(src[i])) =>
            /\ ret.tokens[1].Literal = SubSeq(src, i, RunEnd(src, i))
            /\ (src[i] \in UpperLetters
                    => ret.tokens[1].Type = "TOKEN_TERMINAL")
            /\ (src[i] \in LowerLetters
                    => ret.tokens[1].Type = "TOKEN_NONTERMINAL")

\* Tokenize returned a terminal whose later characters are a lowercase
\* letter and a digit.
C23_Witness ==
    /\ last.op = "Tokenize"
    /\ last.args[2] = <<"A", "a", "1">>
    /\ ret.tokens[1].Type = "TOKEN_TERMINAL"
    /\ ret.tokens[1].Literal = <<"A", "a", "1">>

\* The offsets (Scanner.Offset) at which Scan found the tokens of a source,
\* in order; s is the scanner after a Scan.
RECURSIVE ScanOffsets(_, _)
ScanOffsets(s, acc) ==
    IF s.r = "EOF" THEN acc ELSE ScanOffsets(Scan(s), Append(acc, s.Offset))

\* The line and the column of the character at offset o of src: 1 plus the
\* number of newlines before it, and 1 plus the number of characters between
\* the preceding newline (or the start of src) and it.
LineAt(src, o) == 1 + Cardinality({j \in 1..o : src[j] = "\n"})
ColumnAt(src, o) ==
    LET nls == {j \in 1..o : src[j] = "\n"}
        prev == IF nls = {} THEN 0
                ELSE CHOOSE j \in nls : \A i \in nls : i <= j
    IN  1 + (o - prev)

\* C24, as stated: in a source without byte-order mark every token that
\* Tokenize returns, the final TOKEN_EOF included, has Pos.Line equal to 1
\* plus the number of newlines before its first character and Pos.Column
\* equal to 1 plus the number of characters between the preceding newline
\* (or the start of the source) and its first character; the TOKEN_EOF
\* stands at the end of the source.
C24_EveryTokenExact ==
    LET src  == last.args[2]
        offs == Append(ScanOffsets(Scan(ScannerInit(src)), <<>>), Len(src))
    IN  (last.op = "Tokenize" /\ \A j \in 1..Len(src) : src[j] # "BOM") =>
            /\ Len(offs) = Len(ret.tokens)
            /\ \A k \in 1..Len(offs) :
                   /\ ret.tokens[k].Pos.Line = LineAt(src, offs[k])
                   /\ ret.tokens[k].Pos.Column = ColumnAt(src, offs[k])

\* C24, amended: in a source without byte-order mark, every token other
\* than the final TOKEN_EOF has Pos.Line equal to 1 plus the number of
\* newlines before its first character and Pos.Column equal to 1 plus the
\* number of characters between the preceding newline (or the start of the
\* source) and its first character.  The final TOKEN_EOF has the line and
\* the column of the last character of the source, and line 0 and column 0
\* when the source is empty.
C24_PositionsAreExact ==
    LET src  == last.args[2]
        offs == ScanOffsets(Scan(ScannerInit(src)), <<>>)
        eof  == ret.tokens[Len(ret.tokens)]
    IN  (last.op = "Tokenize" /\ \A j \in 1..Len(src) : src[j] # "BOM") =>
            /\ Len(offs) = Len(ret.tokens) - 1
            /\ \A k \in 1..Len(offs) :
                   LET tok == ret.tokens[k]
                   IN  /\ tok.Literal
                            = SubSeq(src, offs[k] + 1, offs[k] + Len(tok.Literal))
                       /\ tok.Literal # <<>>
                       /\ tok.Pos.Line = LineAt(src, offs[k])
                       /\ tok.Pos.Column = ColumnAt(src, offs[k])
            /\ eof.Type = "TOKEN_EOF"
            /\ IF src = <<>>
               THEN eof.Pos.Line = 0 /\ eof.Pos.Column = 0
               ELSE /\ eof.Pos.Line = LineAt(src, Len(src) - 1)
                    /\ eof.Pos.Column = ColumnAt(src, Len(src) - 1)

\* Tokenize returned a token that follows a code block of two lines, and
\* the TOKEN_EOF after it at the position of that token, the last character.
C24_Witness ==
    /\ last.op = "Tokenize"
    /\ last.args[2] = <<"{", "\n", "}", " ", "A">>
    /\ ret.tokens[2].Type = "TOKEN_TERMINAL"
    /\ ret.tokens[2].Pos.Line = 2
    /\ ret.tokens[2].Pos.Column = 3
    /\ ret.tokens[3].Type = "TOKEN_EOF"
    /\ ret.tokens[3].Pos.Line = 2
    /\ ret.tokens[3].Pos.Column = 3

----------------------------------------------------------------------------
(* Properties of the builder and the sink, continued.                      *)

\* C25: Start is unset or a nonterminal in every state; SetStart with a
\* terminal, and a start_symbol directive that names a terminal, record an
\* error and leave Start as it was; BeginRule with a terminal LHS leaves
\* Start as it was.
C25_StartIsNonterminal ==
    [][ /\ (Start' = NilSym \/ Symbols'[Start'].Kind = SymNonterminal)
        /\ (last'.op = "SetStart" /\ last'.args[1] # NilSym
                /\ Symbols[last'.args[1]].Kind = SymTerminal)
             => /\ Start' = Start
                /\ Len(diags') = Len(diags) + 1
                /\ diags'[Len(diags')].Level = DiagError
                /\ diags'[Len(diags')].Msg[1] = "start symbol %q must be a nonterminal"
        /\ (last'.op = "Directive" /\ last'.args[1].Kind = DirStartSymbol
                /\ Lookup(World, last'.args[1].Value) # NilSym
                /\ Symbols[Lookup(World, last'.args[1].Value)].Kind = SymTerminal)
             => /\ Start' = Start
                /\ \E k \in (Len(diags) + 1)..Len(diags') :
                       diags'[k].Level = DiagError
        /\ (last'.op = "BeginRule" /\ last'.args[1] # NilSym
                /\ Symbols[last'.args[1]].Kind = SymTerminal)
             => Start' = Start
      ]_vars

\* SetStart was called with a terminal while another symbol was the start.
C25_Witness ==
    /\ last.op = "SetStart"
    /\ last.args[1] # NilSym
    /\ Symbols[last.args[1]].Kind = SymTerminal
    /\ Start # NilSym
    /\ Start # last.args[1]
    /\ diags # <<>>
    /\ diags[Len(diags)].Msg[1] = "start symbol %q must be a nonterminal"

\* C26: Finalize on a grammar without rules appends the error "grammar has
\* no rules" and nothing else, so HasErrors holds afterwards, and it changes
\* nothing in the grammar.
C26_NoRulesIsFatal ==
    [][ (last'.op = "Finalize" /\ Len(Rules) = 0) =>
            /\ Len(diags') = Len(diags) + 1
            /\ SubSeq(diags', 1, Len(diags)) = diags
            /\ diags'[Len(diags')].Level = DiagError
            /\ diags'[Len(diags')].Msg = <<"grammar has no rules">>
            /\ HasErrors(World)'
            /\ Symbols' = Symbols /\ Rules' = Rules /\ Start' = Start
      ]_vars

\* Finalize ran on a grammar that has symbols and no rules, and the only
\* diagnostic is the error about the missing rules.
C26_Witness ==
    /\ last.op = "Finalize"
    /\ Len(Rules) = 0
    /\ Len(Symbols) >= 2
    /\ Len(diags) = 1
    /\ diags[1].Msg = <<"grammar has no rules">>

\* C27: every step keeps each rule at its position with its LHS and with its
\* alternatives as a prefix of the new ones; Builder.BeginRule appends
\* exactly one rule, without alternatives, also when the LHS is a terminal;
\* an Alt on a rule builder that is not done appends exactly one alternative
\* to its rule and to no other rule.
C27_RulesAppendOnly ==
    [][ /\ Len(Rules') >= Len(Rules)
        /\ \A i \in 1..Len(Rules) :
              /\ Rules'[i].LHS = Rules[i].LHS
              /\ Len(Rules'[i].Alternatives) >= Len(Rules[i].Alternatives)
              /\ SubSeq(Rules'[i].Alternatives, 1, Len(Rules[i].Alternatives))
                    = Rules[i].Alternatives
        /\ last'.op = "BeginRule" =>
              /\ Len(Rules') = Len(Rules) + 1
              /\ Rules'[Len(Rules')].Alternatives = <<>>
              /\ (last'.args[1] # NilSym
                    => Rules'[Len(Rules')].LHS = last'.args[1])
              /\ \A i \in 1..Len(Rules) : Rules'[i] = Rules[i]
              /\ ret' = Len(Rules')
        /\ (last'.op = "Alt" /\ ~rbDone[last'.args[1]]) =>
              /\ Len(Rules') = Len(Rules)
              /\ \A i \in 1..Len(Rules) :
                    Len(Rules'[i].Alternatives)
                      = Len(Rules[i].Alternatives)
                          + (IF i = last'.args[1] THEN 1 ELSE 0)
              /\ LET alts == Rules'[last'.args[1]].Alternatives
                 IN  alts[Len(alts)].RHS = last'.args[2]
        /\ last'.op \notin {"BeginRule", "Alt"} => Rules' = Rules
      ]_vars

\* BeginRule was called with a terminal LHS after an earlier rule had
\* received an alternative: both rules are recorded, in call order.
C27_Witness ==
    /\ last.op = "BeginRule"
    /\ Len(Rules) = 2
    /\ Len(Rules[1].Alternatives) = 1
    /\ Symbols[Rules[2].LHS].Kind = SymTerminal
    /\ HasErrors(World)

\* C28: in the sink, the open rule (if any) is the rule added by the most
\* recent BeginRule event, which is the last rule, and every other rule is
\* closed; an Alternative event adds one alternative to the open rule and
\* changes no other rule; a BeginRule event received while a rule is open
\* appends a warning, closes that rule and, when its LHS name is not blank,
\* opens a new last rule; a closed rule stays closed and gets no further
\* alternative.
C28_SinkRuleProtocol ==
    [][ /\ (curRule' # NilRule => curRule' = Len(Rules') /\ ~rbDone'[curRule'])
        /\ \A i \in 1..Len(Rules') : i # curRule' => rbDone'[i]
        /\ \A i \in 1..Len(Rules) :
              rbDone[i] => rbDone'[i] /\ Rules'[i] = Rules[i]
        /\ last'.op = "Alternative" =>
              /\ Len(Rules') = Len(Rules)
              /\ \A i \in 1..Len(Rules) :
                    Len(Rules'[i].Alternatives)
                      = Len(Rules[i].Alternatives)
                          + (IF i = curRule THEN 1 ELSE 0)
        /\ (last'.op = "Sink.BeginRule" /\ curRule # NilRule) =>
              /\ Len(diags') > Len(diags)
              /\ diags'[Len(diags) + 1].Level = DiagWarn
              /\ diags'[Len(diags) + 1].Msg
                    = <<"begin rule while previous rule still open; closing previous rule">>
              /\ rbDone'[curRule]
              /\ curRule' # curRule
              /\ (TrimSpace(last'.args[1]) # <<>>
                    => curRule' = Len(Rules) + 1 /\ Len(Rules') = Len(Rules) + 1)
        /\ (last'.op = "Sink.BeginRule" /\ curRule = NilRule
                /\ TrimSpace(last'.args[1]) # <<>>)
             => curRule' = Len(Rules) + 1 /\ Len(Rules') = Len(Rules) + 1
        /\ last'.op = "EndRule" =>
              /\ curRule' = NilRule
              /\ Rules' = Rules
      ]_vars

\* An Alternative event arrived after two BeginRule events with no EndRule
\* between them: the first rule is closed and empty, the second has the
\* alternative.
C28_Witness ==
    /\ last.op = "Alternative"
    /\ Len(Rules) = 2
    /\ rbDone[1]
    /\ Rules[1].Alternatives = <<>>
    /\ Len(Rules[2].Alternatives) = 1
    /\ curRule = 2
    /\ \E k \in 1..Len(diags) : diags[k].Level = DiagWarn

\* C29: an Alternative event received while no rule is open appends exactly
\* one diagnostic, the error "alternative encountered without an open rule",
\* and changes neither the grammar (symbols, rules, start, directives,
\* precedence levels) nor the sink's declarations.
C29_AlternativeWithoutRule ==
    [][ (last'.op = "Alternative" /\ curRule = NilRule) =>
            /\ Len(diags') = Len(diags) + 1
            /\ SubSeq(diags', 1, Len(diags)) = diags
            /\ diags'[Len(diags')].Level = DiagError
            /\ diags'[Len(diags')].Msg
                  = <<"alternative encountered without an open rule">>
            /\ Symbols' = Symbols
            /\ SymbolsByName' = SymbolsByName
            /\ Rules' = Rules
            /\ Start' = Start
            /\ Directives' = Directives
            /\ precedenceCounter' = precedenceCounter
            /\ declTokens' = declTokens
            /\ curRule' = NilRule
      ]_vars

\* An Alternative event with a right-hand side and a precedence override
\* arrived after the only rule had been closed; none of its names is a symbol.
C29_Witness ==
    /\ last.op = "Alternative"
    /\ Len(last.args[1].RHS) > 0
    /\ last.args[1].HasPrec
    /\ Len(Rules) = 1
    /\ rbDone[1]
    /\ Rules[1].Alternatives = <<>>
    /\ Len(Symbols) = 1
    /\ diags[Len(diags)].Msg = <<"alternative encountered without an open rule">>

\* C30: after every step the precedence override of every alternative is
\* absent or a terminal; an Alt on a live rule builder whose override is a
\* nonterminal appends an error as its last diagnostic and stores the
\* alternative without override; Finalize never appends the error about an
\* override that is no terminal.
C30_OverrideIsTerminal ==
    [][ /\ \A i \in 1..Len(Rules') :
              \A j \in 1..Len(Rules'[i].Alternatives) :
                  LET p == Rules'[i].Alternatives[j].PrecSym
                  IN  p = NilSym \/ Symbols'[p].Kind = SymTerminal
        /\ (last'.op = "Alt" /\ ~rbDone[last'.args[1]]
                /\ last'.args[3] # NilSym
                /\ Symbols[last'.args[3]].Kind # SymTerminal) =>
              LET alts == Rules'[last'.args[1]].Alternatives
              IN  /\ Len(alts) = Len(Rules[last'.args[1]].Alternatives) + 1
                  /\ alts[Len(alts)].PrecSym = NilSym
                  /\ Len(diags') > Len(diags)
                  /\ diags'[Len(diags')].Level = DiagError
                  /\ diags'[Len(diags')].Msg[1]
                        = "precedence override symbol %q must be a terminal"
        /\ last'.op = "Finalize" =>
              \A k \in (Len(diags) + 1)..Len(diags') :
                  diags'[k].Msg[1]
                     # "precedence override symbol %q must be a terminal"
      ]_vars

\* Finalize ran on a grammar whose only alternative was added by an Alt with
\* a nonterminal as override: the alternative has no override and the only
\* error about the override is the one Alt recorded.
C30_Witness ==
    /\ last.op = "Finalize"
    /\ Len(Rules) = 1
    /\ Len(Rules[1].Alternatives) = 1
    /\ Rules[1].Alternatives[1].PrecSym = NilSym
    /\ Cardinality({k \in 1..Len(diags) :
            diags[k].Msg[1] = "precedence override symbol %q must be a terminal"}) = 1

\* C31: in every state a symbol with a precedence other than 0 is a terminal
\* with associativity Left, Right or Nonassoc and a level between 1 and the
\* number of precedence groups defined so far, and a symbol with precedence 0
\* (every nonterminal among them) has associativity None.
C31_PrecedenceConsistent ==
    /\ precedenceCounter = hist.groups
    /\ \A p \in Ptrs :
          /\ Symbols[p].Precedence # 0 =>
                /\ Symbols[p].Kind = SymTerminal
                /\ Symbols[p].Assoc \in {AssocLeft, AssocRight, AssocNonassoc}
                /\ 1 <= Symbols[p].Precedence
                /\ Symbols[p].Precedence <= hist.groups
          /\ Symbols[p].Precedence = 0 => Symbols[p].Assoc = AssocNone
          /\ Symbols[p].Kind = SymNonterminal => Symbols[p].Precedence = 0

\* A precedence group listed a terminal and a nonterminal: the terminal has
\* the level, the nonterminal was reported and has none.
C31_Witness ==
    /\ last.op = "DefinePrecedenceGroup"
    /\ \E p, q \in Ptrs :
          /\ Symbols[p].Kind = SymTerminal
          /\ Symbols[p].Precedence = hist.groups
          /\ Symbols[q].Kind = SymNonterminal
          /\ last.args[2] = <<p, q>>
    /\ diags # <<>>
    /\ diags[Len(diags)].Msg[1]
          = "precedence can only be assigned to terminals; %q is %s"

\* The pointers of the symbols named "<invalid>" in a symbol table.
Dummies(symbols) == {p \in 1..Len(symbols) : symbols[p].Name = InvalidName}

\* C32: an Intern whose name is blank appends exactly one diagnostic, the
\* error "symbol name is empty", and returns a symbol named "<invalid>"; so
\* do, without the error, NewRef with a nil symbol and (as the LHS of its
\* rule) BeginRule with a nil symbol.  The table never holds two symbols
\* named "<invalid>", and once it holds one these calls return it and add no
\* symbol.
C32_OneInvalidSymbol ==
    [][ LET blankIntern == last'.op = "Intern" /\ TrimSpace(last'.args[1]) = <<>>
            nilRef == last'.op = "NewRef" /\ last'.args[1] = NilSym
            nilRule == last'.op = "BeginRule" /\ last'.args[1] = NilSym
            result == IF nilRule THEN Rules'[Len(Rules')].LHS ELSE ret'
        IN  /\ Cardinality(Dummies(Symbols')) <= 1
            /\ blankIntern =>
                  /\ Len(diags') = Len(diags) + 1
                  /\ SubSeq(diags', 1, Len(diags)) = diags
                  /\ diags'[Len(diags')].Level = DiagError
                  /\ diags'[Len(diags')].Msg = <<"symbol name is empty">>
            /\ (blankIntern \/ nilRef \/ nilRule) =>
                  /\ result \in Dummies(Symbols')
                  /\ (Dummies(Symbols) # {}
                        => result \in Dummies(Symbols) /\ Symbols' = Symbols)
      ]_vars

\* After a blank Intern and a BeginRule with a nil symbol, NewRef with a nil
\* symbol returned the one symbol of the table, which is named "<invalid>".
C32_Witness ==
    /\ last.op = "NewRef"
    /\ last.args[1] = NilSym
    /\ Len(Symbols) = 1
    /\ ret = 1
    /\ Symbols[1].Name = InvalidName
    /\ Len(Rules) = 1
    /\ Rules[1].LHS = 1
    /\ Len(diags) = 1
    /\ diags[1].Msg = <<"symbol name is empty">>

\* C33: a symbol that an Alternative event interns for an RHS name that no
\* token-style directive declared is a terminal exactly when
\* UseHeuristicCapsAsTerminal is set and the name holds a character that is
\* no letter or holds uppercase ASCII letters only; otherwise it is a
\* nonterminal.
C33_CapsHeuristicExact ==
    [][ last'.op = "Alternative" =>
          \A p \in (Len(Symbols) + 1)..Len(Symbols') :
             LET name == Symbols'[p].Name IN
             (/\ \E i \in 1..Len(last'.args[1].RHS) :
                    TrimSpace(last'.args[1].RHS[i].Name) = name
              /\ name \notin declTokens)
             => /\ Symbols'[p].Kind \in {SymTerminal, SymNonterminal}
                /\ Symbols'[p].Kind = SymTerminal
                     <=> /\ UseHeuristicCapsAsTerminal
                         /\ \/ \E i \in 1..Len(name) : ~IsLetter(name[i])
                            \/ \A i \in 1..Len(name) : name[i] \in UpperLetters
      ]_vars

\* C34: SetDirective with a key that is blank once trimmed appends one
\* error and leaves the directives as they were; with any other key it
\* stores the value under the trimmed key, appends exactly one warning when
\* the key was present and nothing when it was not, and leaves every other
\* key with its value.  No other call of the Builder API changes the
\* directives, so each key holds the value of the last call that named it.
C34_DirectivesLastWins ==
    [][ IF last'.op = "SetDirective"
        THEN LET key == TrimSpace(last'.args[1])
                 value == last'.args[2]
             IN  /\ SubSeq(diags', 1, Len(diags)) = diags
                 /\ IF key = <<>>
                    THEN /\ Directives' = Directives
                         /\ Len(diags') = Len(diags) + 1
                         /\ diags'[Len(diags')].Level = DiagError
                         /\ diags'[Len(diags')].Msg = <<"directive key is empty">>
                    ELSE /\ DOMAIN Directives' = DOMAIN Directives \cup {key}
                         /\ Directives'[key] = value
                         /\ \A k \in DOMAIN Directives \ {key} :
                               Directives'[k] = Directives[k]
                         /\ IF key \in DOMAIN Directives
                            THEN /\ Len(diags') = Len(diags) + 1
                                 /\ diags'[Len(diags')].Level = DiagWarn
                                 /\ diags'[Len(diags')].Msg
                                      = <<"directive %q overwritten", key>>
                            ELSE diags' = diags
        ELSE Directives' = Directives
      ]_vars

\* With "k" and "j" set, SetDirective("k ", "x") has replaced the value of
\* "k", recorded the one warning, and left "j" alone.
C34_Witness ==
    /\ last.op = "SetDirective"
    /\ last.args = <<<<"k", " ">>, <<"x">>>>
    /\ DOMAIN Directives = {<<"k">>, <<"j">>}
    /\ Directives[<<"k">>] = <<"x">>
    /\ Directives[<<"j">>] = <<"v">>
    /\ Len(diags) = 1
    /\ diags[1].Level = DiagWarn

\* C35: once Finalize has returned and no error-level diagnostic is
\* recorded, the start symbol is set, is a nonterminal, and is the LHS of a
\* rule that has at least one alternative.
C35_CleanFinalizeHasStartProduction ==
    (last.op = "Finalize" /\ ~HasErrors(World))
    => /\ Start # NilSym
       /\ Symbols[Start].Kind = SymNonterminal
       /\ \E r \in 1..Len(Rules) :
             /\ Rules[r].LHS = Start
             /\ Len(Rules[r].Alternatives) > 0

----------------------------------------------------------------------------
(* Properties of the lexer, continued.                                     *)

\* The pairs <<tokPos, tokEnd>> of the tokens that the successive Scans
\* return before EOF, in order; s is the scanner after a Scan.
RECURSIVE ScanSpans(_, _)
ScanSpans(s, acc) ==
    IF s.r = "EOF" THEN acc
    ELSE ScanSpans(Scan(s), Append(acc, <<s.tokPos, s.tokEnd>>))

\* C36: Tokenize returns for every source; each Scan that returns a token
\* takes at least one character of the source, the tokens of successive
\* Scans do not overlap, and so the loop runs at most Len(src) times before
\* Scan returns EOF and the TOKEN_EOF is appended.
C36_ScanConsumesInput ==
    LET src   == last.args[2]
        spans == ScanSpans(Scan(ScannerInit(src)), <<>>)
        n     == Len(ret.tokens)
    IN  last.op = "Tokenize" =>
            /\ n >= 1
            /\ ret.tokens[n].Type = "TOKEN_EOF"
            /\ n - 1 = Len(spans)
            /\ n - 1 <= Len(src)
            /\ \A k \in 1..Len(spans) :
                   /\ 0 <= spans[k][1]
                   /\ spans[k][1] < spans[k][2]
                   /\ spans[k][2] <= ByteLen(src)
                   /\ (k < Len(spans) => spans[k][2] <= spans[k + 1][1])

\* Tokenize returned for a lone ':', an illegal byte and an unterminated
\* string: three tokens, one per character, and the TOKEN_EOF.
C36_Witness ==
    /\ last.op = "Tokenize"
    /\ last.args[2] = <<":", "BAD", "\"">>
    /\ Len(ret.tokens) = 4
    /\ ret.tokens[4].Type = "TOKEN_EOF"

\* The position of the brace that closes the code block open at level
\* `level` when src is read from position i on and the braces between two
\* double quotes are not counted; 0 when there is none.
RECURSIVE BlockClose(_, _, _, _)
BlockClose(src, i, level, inString) ==
    IF i > Len(src) THEN 0
    ELSE IF inString THEN BlockClose(src, i + 1, level, src[i] # "\"")
    ELSE IF src[i] = "\"" THEN BlockClose(src, i + 1, level, TRUE)
    ELSE IF src[i] = "{" THEN BlockClose(src, i + 1, level + 1, FALSE)
    ELSE IF src[i] = "}"
    THEN IF level = 1 THEN i ELSE BlockClose(src, i + 1, level - 1, FALSE)
    ELSE BlockClose(src, i + 1, level, FALSE)

\* src with every brace that stands between two double quotes before
\* position m replaced by a letter.
NoStringBraces(src, m) ==
    [j \in 1..Len(src) |->
        IF /\ j < m
           /\ src[j] \in {"{", "}"}
           /\ Cardinality({i \in 1..(j - 1) : src[i] = "\""}) % 2 = 1
        THEN "a" ELSE src[j]]

\* C37: for a source that starts with a code block in which a string holds
\* a brace, the first token is a TOKEN_CODE_BLOCK whose literal ends at the
\* brace that closes the block when the braces in strings are not counted,
\* and the tokens after it are those of the same source with the braces in
\* the strings replaced by a letter.
C37_StringBracesIgnored ==
    LET src   == last.args[2]
        m     == BlockClose(src, 2, 1, FALSE)
        plain == NoStringBraces(src, m)
    IN  (/\ last.op = "Tokenize"
         /\ src # <<>>
         /\ src[1] = "{"
         /\ m > 0
         /\ plain # src)
        => /\ ret.tokens[1].Type = "TOKEN_CODE_BLOCK"
           /\ ret.tokens[1].Literal = SubSeq(src, 1, m)
           /\ TypesAndLiterals(Tail(ret.tokens))
                = TypesAndLiterals(Tail(Tokenize(last.args[1], plain).tokens))

\* The number of errors the scanner has counted when its Scan returns EOF;
\* s is the scanner after a Scan.
RECURSIVE ErrorsAtEOF(_)
ErrorsAtEOF(s) == IF s.r = "EOF" THEN s.ErrorCount ELSE ErrorsAtEOF(Scan(s))

\* C38: when the scanner has counted an error while Tokenize read the
\* source, Tokenize returns an error or a token stream that holds a
\* TOKEN_ERROR.
C38_ScannerErrorsAreVisible ==
    (last.op = "Tokenize" /\ ErrorsAtEOF(Scan(ScannerInit(last.args[2]))) > 0)
    => \/ ret.err # "nil"
       \/ \E k \in 1..Len(ret.tokens) : ret.tokens[k].Type = "TOKEN_ERROR"

====
